---- MODULE Spec2Model ----
(***************************************************************************)
(* Model of the Medikode MCP server: the JSON-RPC dispatch of the three    *)
(* transports (WebSocket, stdio, HTTP /mcp/inspect), the upstream router   *)
(* and the usage-logger hand-off.                                          *)
(***************************************************************************)
EXTENDS Integers, Sequences, FiniteSets, TLC

(***************************************************************************)
(* JavaScript values.  Every value is a record tagged by its type, so that *)
(* values of different types can be compared (0 is not "0", null is not    *)
(* undefined).  Strings the code only passes around are TLA+ strings;      *)
(* strings the code looks inside (JSON text) are sequences of characters.  *)
(***************************************************************************)
Undefined == [t |-> "undefined"]
Null == [t |-> "null"]
Num(n) == [t |-> "number", n |-> n]
Str(s) == [t |-> "string", s |-> s]
Bool(b) == [t |-> "boolean", b |-> b]
Text(cs) == [t |-> "text", c |-> cs]
Arr(es) == [t |-> "array", e |-> es]
Obj(ps) == [t |-> "object", p |-> ps]
Member(k, v) == [k |-> k, v |-> v]
EmptyObject == Obj(<<>>)

\* JavaScript truthiness of the values the handlers test with ! and ||.
Truthy(v) ==
    CASE v.t = "undefined" -> FALSE
      [] v.t = "null" -> FALSE
      [] v.t = "number" -> v.n # 0
      [] v.t = "string" -> v.s # ""
      [] v.t = "boolean" -> v.b
      [] v.t = "text" -> v.c # <<>>
      [] OTHER -> TRUE

(***************************************************************************)
(* JSON.stringify(value, null, 2) and JSON.parse, character by character.  *)
(***************************************************************************)
Quote == "\""
Backslash == "\\"
Newline == "\n"
DigitChars == <<"0", "1", "2", "3", "4", "5", "6", "7", "8", "9">>

RECURSIVE Spaces(_)
Spaces(n) == IF n <= 0 THEN <<>> ELSE <<" ">> \o Spaces(n - 1)

RECURSIVE NatToChars(_)
NatToChars(n) ==
    IF n < 10 THEN <<DigitChars[n + 1]>>
    ELSE NatToChars(n \div 10) \o <<DigitChars[(n % 10) + 1]>>

NumberToChars(n) == IF n < 0 THEN <<"-">> \o NatToChars(0 - n) ELSE NatToChars(n)

RECURSIVE EscapeChars(_)
EscapeChars(cs) ==
    IF cs = <<>> THEN <<>>
    ELSE LET c == Head(cs)
             e == CASE c = Quote -> <<Backslash, Quote>>
                    [] c = Backslash -> <<Backslash, Backslash>>
                    [] c = Newline -> <<Backslash, "n">>
                    [] OTHER -> <<c>>
         IN e \o EscapeChars(Tail(cs))

QuoteChars(cs) == <<Quote>> \o EscapeChars(cs) \o <<Quote>>

\* JSON.stringify(v, null, gap): gap = 0 is the compact form.
RECURSIVE StringifyAt(_, _, _)
RECURSIVE StringifyItems(_, _, _, _)
StringifyItems(items, isObject, indent, gap) ==
    LET one(x) == IF isObject
                  THEN QuoteChars(x.k) \o <<":">> \o Spaces(IF gap > 0 THEN 1 ELSE 0)
                       \o StringifyAt(x.v, indent, gap)
                  ELSE StringifyAt(x, indent, gap)
        sep == <<",">> \o (IF gap > 0 THEN <<Newline>> \o Spaces(indent) ELSE <<>>)
    IN IF Len(items) = 1 THEN one(items[1])
       ELSE one(items[1]) \o sep \o StringifyItems(Tail(items), isObject, indent, gap)

StringifyAt(v, stepback, gap) ==
    LET indent == stepback + gap
        open(b) == <<b>> \o (IF gap > 0 THEN <<Newline>> \o Spaces(indent) ELSE <<>>)
        close(b) == (IF gap > 0 THEN <<Newline>> \o Spaces(stepback) ELSE <<>>) \o <<b>>
    IN CASE v.t = "null" -> <<"n", "u", "l", "l">>
         [] v.t = "boolean" -> IF v.b THEN <<"t", "r", "u", "e">>
                               ELSE <<"f", "a", "l", "s", "e">>
         [] v.t = "number" -> NumberToChars(v.n)
         [] v.t = "text" -> QuoteChars(v.c)
         [] v.t = "array" ->
              IF v.e = <<>> THEN <<"[", "]">>
              ELSE open("[") \o StringifyItems(v.e, FALSE, indent, gap) \o close("]")
         [] v.t = "object" ->
              IF v.p = <<>> THEN <<"{", "}">>
              ELSE open("{") \o StringifyItems(v.p, TRUE, indent, gap) \o close("}")

\* JSON.stringify(value, null, 2)
Stringify(v) == StringifyAt(v, 0, 2)

SyntaxError == [t |-> "SyntaxError"]
ParseFail(i) == [ok |-> FALSE, v |-> Null, i |-> i]
ParseOk(v, i) == [ok |-> TRUE, v |-> v, i |-> i]

RECURSIVE SkipWs(_, _)
SkipWs(s, i) ==
    IF i <= Len(s) /\ s[i] \in {" ", Newline} THEN SkipWs(s, i + 1) ELSE i

\* TRUE when the characters of word stand in s from position i on.
StartsWith(s, i, word) ==
    /\ i + Len(word) - 1 <= Len(s)
    /\ \A j \in 1..Len(word) : s[i + j - 1] = word[j]

DigitValue(c) == CHOOSE d \in 0..9 : DigitChars[d + 1] = c
IsDigit(c) == \E d \in 1..10 : DigitChars[d] = c

RECURSIVE ParseDigits(_, _, _)
ParseDigits(s, i, acc) ==
    IF i <= Len(s) /\ IsDigit(s[i])
    THEN ParseDigits(s, i + 1, acc * 10 + DigitValue(s[i]))
    ELSE ParseOk(acc, i)

ParseNumber(s, i) ==
    LET neg == i <= Len(s) /\ s[i] = "-"
        j == IF neg THEN i + 1 ELSE i
    IN IF j <= Len(s) /\ IsDigit(s[j])
       THEN LET r == ParseDigits(s, j, 0)
            IN ParseOk(Num(IF neg THEN 0 - r.v ELSE r.v), r.i)
       ELSE ParseFail(i)

\* The characters of a string literal whose opening quote stands before i.
RECURSIVE ParseStringChars(_, _, _)
ParseStringChars(s, i, acc) ==
    IF i > Len(s) THEN ParseFail(i)
    ELSE IF s[i] = Quote THEN ParseOk(acc, i + 1)
    ELSE IF s[i] = Newline THEN ParseFail(i)
    ELSE IF s[i] = Backslash
         THEN IF i + 1 > Len(s) THEN ParseFail(i)
              ELSE IF s[i + 1] \in {Quote, Backslash}
                   THEN ParseStringChars(s, i + 2, Append(acc, s[i + 1]))
              ELSE IF s[i + 1] = "n"
                   THEN ParseStringChars(s, i + 2, Append(acc, Newline))
              ELSE ParseFail(i)
    ELSE ParseStringChars(s, i + 1, Append(acc, s[i]))

RECURSIVE ParseValue(_, _)
RECURSIVE ParseElements(_, _, _)
RECURSIVE ParseMembers(_, _, _)

\* After an element of an array: "," and the next element, or "]".
ParseElements(s, i, acc) ==
    LET r == ParseValue(s, i)
        j == SkipWs(s, r.i)
    IN IF ~r.ok \/ j > Len(s) THEN ParseFail(i)
       ELSE IF s[j] = "," THEN ParseElements(s, j + 1, Append(acc, r.v))
       ELSE IF s[j] = "]" THEN ParseOk(Arr(Append(acc, r.v)), j + 1)
       ELSE ParseFail(j)

ParseMembers(s, i, acc) ==
    LET a == SkipWs(s, i)
        k == IF a <= Len(s) /\ s[a] = Quote
             THEN ParseStringChars(s, a + 1, <<>>) ELSE ParseFail(a)
        c == SkipWs(s, k.i)
        r == IF k.ok /\ c <= Len(s) /\ s[c] = ":"
             THEN ParseValue(s, c + 1) ELSE ParseFail(c)
        j == SkipWs(s, r.i)
    IN IF ~r.ok \/ j > Len(s) THEN ParseFail(i)
       ELSE IF s[j] = "," THEN ParseMembers(s, j + 1, Append(acc, Member(k.v, r.v)))
       ELSE IF s[j] = "}" THEN ParseOk(Obj(Append(acc, Member(k.v, r.v))), j + 1)
       ELSE ParseFail(j)

ParseValue(s, i0) ==
    LET i == SkipWs(s, i0)
    IN IF i > Len(s) THEN ParseFail(i)
       ELSE IF StartsWith(s, i, <<"n", "u", "l", "l">>) THEN ParseOk(Null, i + 4)
       ELSE IF StartsWith(s, i, <<"t", "r", "u", "e">>) THEN ParseOk(Bool(TRUE), i + 4)
       ELSE IF StartsWith(s, i, <<"f", "a", "l", "s", "e">>)
            THEN ParseOk(Bool(FALSE), i + 5)
       ELSE IF s[i] = Quote
            THEN LET r == ParseStringChars(s, i + 1, <<>>)
                 IN IF r.ok THEN ParseOk(Text(r.v), r.i) ELSE ParseFail(i)
       ELSE IF s[i] = "["
            THEN LET j == SkipWs(s, i + 1)
                 IN IF j <= Len(s) /\ s[j] = "]" THEN ParseOk(Arr(<<>>), j + 1)
                    ELSE ParseElements(s, i + 1, <<>>)
       ELSE IF s[i] = "{"
            THEN LET j == SkipWs(s, i + 1)
                 IN IF j <= Len(s) /\ s[j] = "}" THEN ParseOk(Obj(<<>>), j + 1)
                    ELSE ParseMembers(s, i + 1, <<>>)
       ELSE ParseNumber(s, i)

\* JSON.parse(text): the value, or SyntaxError when text is not one JSON value.
Parse(s) ==
    LET r == ParseValue(s, 1)
    IN IF r.ok /\ SkipWs(s, r.i) = Len(s) + 1 THEN r.v ELSE SyntaxError

(***************************************************************************)
(* Objects of the requests.  A parsed JSON object the code reads fields of *)
(* is Rec(f), f a TLA+ record of its keys; a key it lacks reads undefined. *)
(***************************************************************************)
Rec(f) == [t |-> "record", f |-> f]
Field(obj, key) ==
    IF obj.t = "record" /\ key \in DOMAIN obj.f THEN obj.f[key] ELSE Undefined

\* const { a, b } = v throws a TypeError when v is undefined or null.
CanDestructure(v) == v.t \notin {"undefined", "null"}
DestructureError(v) ==
    Str("Cannot destructure property 'name' of 'params' as it is " \o v.t \o ".")

\* JSON.stringify(response) on the way out: a key whose value is undefined is
\* not written.
Serialize(response) ==
    [k \in {k \in DOMAIN response : response[k] # Undefined} |-> response[k]]

(***************************************************************************)
(* The tool tables, one per transport as in the source.                    *)
(***************************************************************************)
Tool(name, description, properties, required) ==
    [name |-> name, description |-> description,
     properties |-> properties, required |-> required]

ProcessChartTool ==
    Tool("process_chart",
         "Process patient chart text and return ICD/CPT code suggestions",
         <<"text", "specialty", "taxonomy_code", "insurance">>, <<"text">>)
ValidateCodesTool ==
    Tool("validate_codes", "Validate medical codes against patient chart",
         <<"patient_chart", "human_coded_output", "specialty", "taxonomy_code",
           "insurance">>,
         <<"patient_chart", "human_coded_output">>)
CalculateRafTool ==
    Tool("calculate_raf", "Calculate Risk Adjustment Factor (RAF) score",
         <<"demographics", "illnesses", "model">>, <<"demographics", "illnesses">>)
QaValidateCodesTool ==
    Tool("qa_validate_codes",
         "Perform comprehensive QA validation of coded medical input",
         <<"coded_input">>, <<"coded_input">>)
ParseEobTool ==
    Tool("parse_eob", "Parse and analyze Explanation of Benefits (EOB) documents",
         <<"content">>, <<"content">>)

\* wsTools without the last tool of the list.
wsToolsShort ==
    <<ProcessChartTool, ValidateCodesTool, CalculateRafTool, QaValidateCodesTool>>

\* handleToolsList of the WebSocket handler: const tools = [...]
wsTools ==
    <<ProcessChartTool, ValidateCodesTool, CalculateRafTool, QaValidateCodesTool,
      ParseEobTool>>

\* MCPServer.handleToolsList of the stdio server: const tools = [...]
stdioTools ==
    <<ProcessChartTool, ValidateCodesTool, CalculateRafTool, QaValidateCodesTool,
      ParseEobTool>>

\* handleToolsListHTTP: const tools = [...]
httpTools ==
    <<Tool("assistant", "Interactive coding assistant for CPT/ICD queries.",
           <<"chart">>, <<"chart">>),
      Tool("validator", "Validates CPT/ICD codes against chart notes.",
           <<"chart", "codes">>, <<"chart", "codes">>),
      Tool("parser",
           "Parses EOB (Explanation of Benefits) documents into structured JSON.",
           <<"document">>, <<"document">>)>>

ToolsOf(t) ==
    CASE t = "ws" -> wsTools [] t = "stdio" -> stdioTools [] t = "http" -> httpTools

ToolNames(t) == {ToolsOf(t)[k].name : k \in DOMAIN ToolsOf(t)}
ToolNamed(t, name) == CHOOSE d \in {ToolsOf(t)[k] : k \in DOMAIN ToolsOf(t)} : d.name = name

(***************************************************************************)
(* Responses.                                                              *)
(***************************************************************************)
ResultResponse(id, result) == [jsonrpc |-> Str("2.0"), id |-> id, result |-> result]
ErrorResponse(id, code, message) ==
    [jsonrpc |-> Str("2.0"), id |-> id,
     error |-> [code |-> code, message |-> Str(message)]]
ErrorResponseData(id, code, message, data) ==
    [jsonrpc |-> Str("2.0"), id |-> id,
     error |-> [code |-> code, message |-> Str(message), data |-> data]]

\* MCPServer.sendError(id, code, message, data = null)
sendError(id, code, message, data) ==
    IF Truthy(data) THEN ErrorResponseData(id, code, message, data)
    ELSE ErrorResponse(id, code, message)

ServerInfo(version) ==
    [protocolVersion |-> Str("2024-11-05"),
     capabilities |-> [tools |-> [listChanged |-> Bool(TRUE)]],
     serverInfo |-> [name |-> Str("medikode-mcp-server"), version |-> version]]

handleInitialize(id, params) == ResultResponse(id, ServerInfo(Str("1.0.0")))
handleInitializeHTTP(id, params) == ResultResponse(id, ServerInfo(Str("getVersion()")))
handleToolsList(id) == ResultResponse(id, [tools |-> wsTools])
stdioHandleToolsList(id) == ResultResponse(id, [tools |-> stdioTools])
handleToolsListHTTP(id) == ResultResponse(id, [tools |-> httpTools])
\* A ping answered with a null result.
PingResponseNull(id) == ResultResponse(id, Null)
PingResponse(id) == ResultResponse(id, EmptyObject)

\* result.content of a successful tools/call
TextContent(value) == [content |-> <<[type |-> Str("text"), text |-> Text(Stringify(value))]>>]

(***************************************************************************)
(* ApiServiceRouter: the fetch each forwarder issues, and what              *)
(* forwardRequest makes of the upstream's reply.                            *)
(***************************************************************************)
prodApiUrl == "http://api-service:8000"
sandboxApiUrl == "http://api-service-sandbox:8000"

getApiServiceUrl(environment) ==
    IF environment = "prod" THEN prodApiUrl ELSE sandboxApiUrl

\* The fetch(fullUrl, requestOptions) of forwardRequest.
forwardRequest(environment, endpoint, method, body, apiKey) ==
    [url |-> getApiServiceUrl(environment) \o endpoint,
     method |-> method,
     body |-> IF Truthy(body) /\ method \in {"POST", "PUT"} THEN body ELSE Undefined,
     apiKey |-> apiKey]

processChart(environment, requestData, apiKey) ==
    forwardRequest(environment, "/process-chart", "POST", requestData, apiKey)
validateCodes(environment, requestData, apiKey) ==
    forwardRequest(environment, "/validate", "POST", requestData, apiKey)
calculateRaf(environment, requestData, apiKey) ==
    forwardRequest(environment, "/calculate-raf", "POST", requestData, apiKey)
qaValidateCodes(environment, requestData, apiKey) ==
    forwardRequest(environment, "/qavalidator", "POST", requestData, apiKey)
parseEob(environment, requestData, apiKey) ==
    forwardRequest(environment, "/eobparser", "POST", requestData, apiKey)

NoFetch == [kind |-> "none"]

\* What an awaited call comes back with: a value, or a thrown error's message.
Return(v) == [threw |-> FALSE, value |-> v, message |-> Undefined]
Throw(m) == [threw |-> TRUE, value |-> Undefined, message |-> m]

\* forwardRequestReturn without the response.ok check.
forwardRequestReturnAnyStatus(reply) ==
    IF reply.kind = "network" THEN Throw(Str("fetch failed"))
    ELSE LET responseData == Parse(reply.text)
         IN IF responseData = SyntaxError
            THEN Throw(Str("Unexpected token in JSON"))
            ELSE Return(responseData)

\* forwardRequest after the fetch: a rejected fetch, a non-2xx status and a
\* body that response.json() cannot parse are all thrown to the caller.
forwardRequestReturn(reply) ==
    IF reply.kind = "network" THEN Throw(Str("fetch failed"))
    ELSE IF reply.status \notin 200..299
         THEN Throw(Str("API service error: " \o ToString(reply.status) \o " "
                        \o reply.statusText))
    ELSE LET responseData == Parse(reply.text)
         IN IF responseData = SyntaxError
            THEN Throw(Str("Unexpected token in JSON"))
            ELSE Return(responseData)

(***************************************************************************)
(* What a handler does with a message before its first await: it answers   *)
(* (Respond), or it goes on to the tool call (Continue).                   *)
(***************************************************************************)
Respond(status, response) == [kind |-> "respond", status |-> status, response |-> response]
Continue == [kind |-> "continue"]
Thrown(m) == [kind |-> "throw", message |-> m]

\* The head of handleToolsCall, of MCPServer.handleToolsCall and of
\* handleToolsCallHTTP: const { name, arguments: args } = params; if (!name || !args)
toolsCallParams(id, params) ==
    IF ~CanDestructure(params) THEN Thrown(DestructureError(params))
    ELSE IF ~Truthy(Field(params, "name")) \/ ~Truthy(Field(params, "arguments"))
         THEN Respond(Undefined, ErrorResponse(id, -32602, "Invalid params"))
    ELSE Continue

\* handleMCPMessage of the WebSocket handler
handleMCPMessage(message) ==
    LET id == message.id
        params == message.params
    IN IF message.jsonrpc # Str("2.0")
       THEN Respond(Undefined, ErrorResponse(id, -32600, "Invalid Request"))
       ELSE CASE message.method = Str("initialize") ->
                   Respond(Undefined, handleInitialize(id, params))
              [] message.method = Str("tools/list") ->
                   Respond(Undefined, handleToolsList(id))
              [] message.method = Str("tools/call") ->
                   LET r == toolsCallParams(id, params)
                   IN IF r.kind = "throw"
                      THEN Respond(Undefined,
                             ErrorResponseData(id, -32603, "Internal error", r.message))
                      ELSE r
              [] message.method = Str("ping") -> Respond(Undefined, PingResponse(id))
              [] OTHER ->
                   Respond(Undefined, ErrorResponse(id, -32601, "Method not found"))

\* processMessage whose default branch answers like ping.
processMessageNoDefault(message) ==
    LET id == message.id
        params == message.params
    IN IF message.jsonrpc # Str("2.0")
       THEN Respond(Undefined, sendError(id, -32600, "Invalid Request", Null))
       ELSE CASE message.method = Str("initialize") ->
                   Respond(Undefined, handleInitialize(id, params))
              [] message.method = Str("tools/list") ->
                   Respond(Undefined, stdioHandleToolsList(id))
              [] message.method = Str("tools/call") ->
                   LET r == toolsCallParams(id, params)
                   IN IF r.kind = "throw"
                      THEN Respond(Undefined,
                             sendError(id, -32603, "Internal error", r.message))
                      ELSE IF r.kind = "respond"
                      THEN Respond(Undefined, sendError(id, -32602, "Invalid params", Null))
                      ELSE r
              [] OTHER -> Respond(Undefined, PingResponse(id))

\* MCPServer.processMessage of the stdio server
processMessage(message) ==
    LET id == message.id
        params == message.params
    IN IF message.jsonrpc # Str("2.0")
       THEN Respond(Undefined, sendError(id, -32600, "Invalid Request", Null))
       ELSE CASE message.method = Str("initialize") ->
                   Respond(Undefined, handleInitialize(id, params))
              [] message.method = Str("tools/list") ->
                   Respond(Undefined, stdioHandleToolsList(id))
              [] message.method = Str("tools/call") ->
                   LET r == toolsCallParams(id, params)
                   IN IF r.kind = "throw"
                      THEN Respond(Undefined,
                             sendError(id, -32603, "Internal error", r.message))
                      ELSE IF r.kind = "respond"
                      THEN Respond(Undefined, sendError(id, -32602, "Invalid params", Null))
                      ELSE r
              [] message.method = Str("ping") -> Respond(Undefined, PingResponse(id))
              [] OTHER ->
                   Respond(Undefined, sendError(id, -32601, "Method not found", Null))

\* handleMCPHTTPMessage
handleMCPHTTPMessage(message) ==
    LET id == message.id
        params == message.params
    IN CASE message.method = Str("initialize") ->
              Respond(Num(200), handleInitializeHTTP(id, params))
         [] message.method = Str("tools/list") ->
              Respond(Num(200), handleToolsListHTTP(id))
         [] message.method = Str("tools/call") ->
              LET r == toolsCallParams(id, params)
              IN IF r.kind = "throw"
                 THEN Respond(Num(200),
                        ErrorResponseData(id, -32603, "Internal error", r.message))
                 ELSE IF r.kind = "respond" THEN Respond(Num(200), r.response)
                 ELSE r
         [] message.method = Str("ping") -> Respond(Num(200), PingResponse(id))
         [] OTHER -> Respond(Num(200), ErrorResponse(id, -32601, "Method not found"))

\* inspectPost without the envelope check.
inspectPostUnchecked(body) == handleMCPHTTPMessage(body)

\* inspectPost echoing the id as id || null.
inspectPostFalsyId(body) ==
    IF body.jsonrpc # Str("2.0")
    THEN Respond(Num(400),
                 ErrorResponse(IF Truthy(body.id) THEN body.id ELSE Null,
                               -32600, "Invalid Request"))
    ELSE handleMCPHTTPMessage(body)

\* app.post('/mcp/inspect'): the envelope check, then handleMCPHTTPMessage and
\* res.json(response)
inspectPost(body) ==
    IF body.jsonrpc # Str("2.0")
    THEN Respond(Num(400), ErrorResponse(body.id, -32600, "Invalid Request"))
    ELSE handleMCPHTTPMessage(body)

(***************************************************************************)
(* Credentials.                                                            *)
(***************************************************************************)
\* req.apiKeyData = { id: 1, user_id: 1, environment: 'prod' }
DefaultKeyData == Rec([id |-> Num(1), user_id |-> Num(1), environment |-> Str("prod")])

\* this.apiKey of the stdio server: MCP_API_KEY or the built-in key
stdioApiKey == Str("mk_e434859e")

\* extractApiKeyFromWebSocket(req): the query parameter first, then the header
extractApiKeyFromWebSocket(req) ==
    IF Truthy(req.query) THEN req.query ELSE req.header

\* handleToolsCallHTTP: req.headers['x-api-key'] || the bearer token
extractApiKeyHTTP(headers) ==
    IF Truthy(headers.xApiKey) THEN headers.xApiKey ELSE headers.bearer

\* How the validation service answered a key: it accepted it, it rejected it
\* (status not ok, or valid false), or it could not be reached.
KeyCheckOf(reply) ==
    IF reply.kind = "network" THEN "unreachable"
    ELSE IF reply.status \notin 200..299 \/ ~Truthy(reply.valid) THEN "rejected"
    ELSE "ok"

\* validateApiKeyData after its fetch: every failure is rethrown as one error
validateApiKeyDataReturn(reply) ==
    IF reply.kind = "network" \/ reply.status \notin 200..299 \/ ~Truthy(reply.valid)
    THEN Throw(Str("API key validation failed"))
    ELSE Return(reply.keyData)

(***************************************************************************)
(* The switch (name) of each tools/call handler: the fetch it issues, or   *)
(* NoFetch in the default branch.                                          *)
(***************************************************************************)
wsToolFetch(name, args, apiKey) ==
    CASE name = Str("process_chart") -> processChart("prod", args, apiKey)
      [] name = Str("validate_codes") -> validateCodes("prod", args, apiKey)
      [] name = Str("calculate_raf") -> calculateRaf("prod", args, apiKey)
      [] name = Str("qa_validate_codes") -> qaValidateCodes("prod", args, apiKey)
      [] name = Str("parse_eob") -> parseEob("prod", args, apiKey)
      [] OTHER -> NoFetch

\* stdioToolFetch whose default branch forwards to the chart endpoint.
stdioToolFetchNoDefault(name, args, apiKey) ==
    CASE name = Str("validate_codes") -> validateCodes("prod", args, apiKey)
      [] name = Str("calculate_raf") -> calculateRaf("prod", args, apiKey)
      [] name = Str("qa_validate_codes") -> qaValidateCodes("prod", args, apiKey)
      [] name = Str("parse_eob") -> parseEob("prod", args, apiKey)
      [] OTHER -> processChart("prod", args, apiKey)

stdioToolFetch(name, args, apiKey) ==
    CASE name = Str("process_chart") -> processChart("prod", args, apiKey)
      [] name = Str("validate_codes") -> validateCodes("prod", args, apiKey)
      [] name = Str("calculate_raf") -> calculateRaf("prod", args, apiKey)
      [] name = Str("qa_validate_codes") -> qaValidateCodes("prod", args, apiKey)
      [] name = Str("parse_eob") -> parseEob("prod", args, apiKey)
      [] OTHER -> NoFetch

\* Array.prototype.join of an array of strings
RECURSIVE JoinStrings(_, _)
JoinStrings(es, sep) ==
    IF es = <<>> THEN ""
    ELSE IF Len(es) = 1 THEN es[1].s
    ELSE es[1].s \o sep \o JoinStrings(Tail(es), sep)

\* callApiService(endpoint, data, apiKey, environment): its switch (endpoint)
callApiService(endpoint, data, apiKey, environment) ==
    CASE endpoint = "/assistant" -> processChart(environment, data, apiKey)
      [] endpoint = "/validator" -> validateCodes(environment, data, apiKey)
      [] endpoint = "/eobparser" -> parseEob(environment, data, apiKey)

\* The switch (name) of handleToolsCallHTTP; args.codes.join throws a
\* TypeError when codes is not an array.
httpToolFetch(name, args, apiKey) ==
    CASE name = Str("assistant") ->
           callApiService("/assistant", Rec([text |-> Field(args, "chart")]), apiKey, "prod")
      [] name = Str("validator") ->
           LET codes == Field(args, "codes")
           IN IF codes.t # "array"
              THEN Thrown(Str(IF CanDestructure(codes)
                              THEN "args.codes.join is not a function"
                              ELSE "Cannot read properties of " \o codes.t
                                   \o " (reading 'join')"))
              ELSE callApiService("/validator",
                     Rec([patient_chart |-> Field(args, "chart"),
                          human_coded_output |-> Str(JoinStrings(codes.e, ", "))]),
                     apiKey, "prod")
      [] name = Str("parser") ->
           callApiService("/eobparser", Rec([content |-> Field(args, "document")]),
                          apiKey, "prod")
      [] OTHER -> NoFetch

\* callApiService after the router's reply: return { status: 200, data: responseData }
StatusKey == <<"s", "t", "a", "t", "u", "s">>
DataKey == <<"d", "a", "t", "a">>
callApiServiceReturn(r) ==
    IF r.threw THEN r
    ELSE Return(Obj(<<Member(StatusKey, Num(200)), Member(DataKey, r.value)>>))

\* o.key of a JSON object
ObjField(o, key) ==
    IF \E k \in DOMAIN o.p : o.p[k].k = key
    THEN o.p[CHOOSE k \in DOMAIN o.p : o.p[k].k = key].v
    ELSE Undefined

(***************************************************************************)
(* The REST tool endpoints, POST /mcp/tools/{name}: the Joi schemas, the   *)
(* key middleware in front of the router, and the route handlers.          *)
(***************************************************************************)
Specialties ==
    <<"Cardiology", "Physical Therapy", "Internal Medicine", "Urology", "Family Medicine",
      "Neurology">>
RafModels == <<"V28", "V24", "V22">>

RECURSIVE JoinNames(_)
JoinNames(names) ==
    IF names = <<>> THEN ""
    ELSE IF Len(names) = 1 THEN names[1]
    ELSE names[1] \o ", " \o JoinNames(Tail(names))

\* One key of a Joi.object: Joi.string(), .required() or not, .valid(...) when
\* only is not <<>>, .default(...) when default is not undefined.
JoiString(key, required, only, default) ==
    [key |-> key, required |-> required, only |-> only, default |-> default]

processChartSchema ==
    [keys |-> <<JoiString("text", TRUE, <<>>, Undefined),
                JoiString("specialty", FALSE, Specialties, Undefined),
                JoiString("taxonomy_code", FALSE, <<>>, Undefined),
                JoiString("insurance", FALSE, <<>>, Undefined)>>,
     custom |-> TRUE]
validateCodesSchema ==
    [keys |-> <<JoiString("patient_chart", TRUE, <<>>, Undefined),
                JoiString("human_coded_output", TRUE, <<>>, Undefined),
                JoiString("specialty", FALSE, Specialties, Undefined),
                JoiString("taxonomy_code", FALSE, <<>>, Undefined),
                JoiString("insurance", FALSE, <<>>, Undefined)>>,
     custom |-> TRUE]
calculateRafSchema ==
    [keys |-> <<JoiString("demographics", TRUE, <<>>, Undefined),
                JoiString("illnesses", TRUE, <<>>, Undefined),
                JoiString("model", FALSE, RafModels, Str("V28"))>>,
     custom |-> FALSE]
qaValidateCodesSchema ==
    [keys |-> <<JoiString("coded_input", TRUE, <<>>, Undefined)>>, custom |-> FALSE]
parseEobSchema ==
    [keys |-> <<JoiString("content", TRUE, <<>>, Undefined)>>, custom |-> FALSE]

JoiError(message) == [error |-> Str(message), value |-> Undefined]
JoiValue(value) == [error |-> Undefined, value |-> Rec(value)]

\* The keys of the schema in their order, the first failure ending the
\* validation (abortEarly); value collects the defaults.
RECURSIVE validateKeys(_, _, _)
validateKeys(keys, body, value) ==
    IF keys = <<>> THEN JoiValue(value)
    ELSE LET rule == Head(keys)
             item == IF rule.key \in DOMAIN body THEN body[rule.key] ELSE Undefined
             quoted == "\"" \o rule.key \o "\""
         IN IF item = Undefined
            THEN IF rule.required THEN JoiError(quoted \o " is required")
                 ELSE validateKeys(Tail(keys), body,
                                   IF rule.default = Undefined THEN value
                                   ELSE (rule.key :> rule.default) @@ value)
            ELSE IF rule.only # <<>>
            THEN IF item.t = "string" /\ \E k \in DOMAIN rule.only : item.s = rule.only[k]
                 THEN validateKeys(Tail(keys), body, value)
                 ELSE JoiError(quoted \o " must be one of [" \o JoinNames(rule.only) \o "]")
            ELSE IF item.t # "string" THEN JoiError(quoted \o " must be a string")
            ELSE IF item.s = "" THEN JoiError(quoted \o " is not allowed to be empty")
            ELSE validateKeys(Tail(keys), body, value)

\* validate without the custom rule of the chart schemas.
validateNoCustom(schema, body) ==
    LET known == {schema.keys[k].key : k \in DOMAIN schema.keys}
        checked == validateKeys(schema.keys, body.f, body.f)
    IN IF checked.error # Undefined THEN checked
       ELSE IF DOMAIN body.f \ known # {}
       THEN JoiError("\"" \o (CHOOSE k \in DOMAIN body.f \ known : TRUE) \o "\" is not allowed")
       ELSE checked

\* schema.validate(req.body): the keys, then the keys the schema does not
\* know, then the custom rule of the chart schemas.
validate(schema, body) ==
    LET known == {schema.keys[k].key : k \in DOMAIN schema.keys}
        checked == validateKeys(schema.keys, body.f, body.f)
    IN IF checked.error # Undefined THEN checked
       ELSE IF DOMAIN body.f \ known # {}
       THEN JoiError("\"" \o (CHOOSE k \in DOMAIN body.f \ known : TRUE) \o "\" is not allowed")
       ELSE IF schema.custom /\ Truthy(Field(body, "specialty"))
               /\ Truthy(Field(body, "taxonomy_code"))
       THEN JoiError("Cannot provide both specialty and taxonomy_code. Please provide only one.")
       ELSE checked

\* The five routes: the schema each validates with and the endpoint it calls.
toolRoutes ==
    [process_chart |-> [schema |-> processChartSchema, endpoint |-> "/assistant"],
     validate_codes |-> [schema |-> validateCodesSchema, endpoint |-> "/validator"],
     calculate_raf |-> [schema |-> calculateRafSchema, endpoint |-> "/rafscore"],
     qa_validate_codes |-> [schema |-> qaValidateCodesSchema, endpoint |-> "/qavalidator"],
     parse_eob |-> [schema |-> parseEobSchema, endpoint |-> "/eobparser"]]

\* callApiService of the routes: its switch (endpoint)
routesCallApiService(endpoint, data, apiKey, environment) ==
    CASE endpoint = "/assistant" -> processChart(environment, data, apiKey)
      [] endpoint = "/validator" -> validateCodes(environment, data, apiKey)
      [] endpoint = "/rafscore" -> calculateRaf(environment, data, apiKey)
      [] endpoint = "/qavalidator" -> qaValidateCodes(environment, data, apiKey)
      [] endpoint = "/eobparser" -> parseEob(environment, data, apiKey)

\* req.apiKeyData?.environment || 'sandbox'
routeEnvironment(apiKeyData) ==
    LET environment == Field(apiKeyData, "environment")
    IN IF Truthy(environment) THEN environment.s ELSE "sandbox"

\* const requestId = uuidv4(), drawn by every request
uuidv4(n) == Str("<uuid " \o ToString(n) \o ">")
\* new Date().toISOString()
Timestamp == Str("<toISOString>")
ServiceName == Str("medikode-mcp-server")

\* The bodies of the middleware and of the routes.
KeyErrorBody(error) == [error |-> Str(error), timestamp |-> Timestamp, service |-> ServiceName]
ValidationErrorBody(tool, requestId, details) ==
    [error |-> Str("Validation error"), details |-> details, timestamp |-> Timestamp,
     service |-> ServiceName, tool |-> Str(tool), request_id |-> requestId]
InternalErrorBody(tool, requestId, message) ==
    [error |-> Str("Internal server error"), message |-> message, timestamp |-> Timestamp,
     service |-> ServiceName, tool |-> Str(tool), request_id |-> requestId]
McpMetadataKey == <<"m", "c", "p", "_", "m", "e", "t", "a", "d", "a", "t", "a">>
\* { ...apiResponse.data, mcp_metadata: {...} }; the upstream bodies of the
\* model are objects or are not JSON.
SuccessBody(tool, requestId, data) ==
    Obj(SelectSeq(IF data.t = "object" THEN data.p ELSE <<>>,
                  LAMBDA m : m.k # McpMetadataKey)
        \o <<Member(McpMetadataKey, Rec([tool |-> Str(tool), request_id |-> requestId,
                                         timestamp |-> Timestamp]))>>)

(***************************************************************************)
(* The usage records handed to logUsage.  processingTimeMs, a difference   *)
(* of two clock readings, is left out.                                     *)
(***************************************************************************)
\* ws.requestId is assigned once, when the connection opens; the stdio handler
\* draws a requestId in every tools/call.  A draw (Date.now() and
\* Math.random(), or uuidv4()) is a value n no other live call has drawn.
wsRequestId == Str("ws_<Date.now()>_<random>")
stdioRequestId(n) == Str("stdio_<Date.now()>_<random " \o ToString(n) \o ">")

\* try { await logUsage(record) } catch (logError) { console.error(...) }:
\* logUsage resolves, or rejects (the INSERT fails, request_id being UNIQUE,
\* or the database is gone); either way the handler goes on.
LogOutcomes == {"resolves", "rejects"}

\* afterLogUsage that lets a rejection of logUsage reach the outer catch.
afterLogUsageUncaught(outcome, response) ==
    IF outcome = "rejects"
    THEN [jsonrpc |-> Str("2.0"), id |-> response.id,
          error |-> [code |-> -32603, message |-> Str("Internal error"),
                     data |-> Str("SQLITE_CONSTRAINT: UNIQUE constraint failed")]]
    ELSE response

afterLogUsage(outcome, response) == response

UsageRecord(requestId, apiKeyId, toolName, requestData, responseData, statusCode, errorMessage) ==
    [requestId |-> requestId, apiKeyId |-> apiKeyId, toolName |-> toolName,
     requestData |-> requestData, responseData |-> responseData,
     statusCode |-> statusCode, errorMessage |-> errorMessage]

\* The logUsage call that follows a tool call's outcome r.
UsageOf(requestId, apiKeyId, name, args, r) ==
    IF r.threw
    THEN UsageRecord(requestId, apiKeyId, name, args, Null, 500, r.message)
    ELSE UsageRecord(requestId, apiKeyId, name, args, r.value, 200, Null)

(***************************************************************************)
(* The requests and replies the environment can produce.                   *)
(***************************************************************************)
MaxInFlight == 1

Message(jsonrpc, id, method, params) ==
    [jsonrpc |-> jsonrpc, id |-> id, method |-> method, params |-> params]

Ids == {Undefined, Null, Num(0), Str("a")}
CallIds == {Num(0), Str("a")}

\* (tool, arguments) pairs: complete arguments, and arguments that lack a
\* required field of the tool.
CompleteArgs ==
    {<<"process_chart", Rec([text |-> Str("chart note")])>>,
     <<"validate_codes", Rec([patient_chart |-> Str("chart note"),
                              human_coded_output |-> Str("99213")])>>,
     <<"calculate_raf", Rec([demographics |-> Str("65M"), illnesses |-> Str("diabetes"),
                             model |-> Str("V28")])>>,
     <<"calculate_raf", Rec([demographics |-> Str("65M"), illnesses |-> Str("diabetes")])>>,
     <<"qa_validate_codes", Rec([coded_input |-> Str("99213")])>>,
     <<"parse_eob", Rec([content |-> Str("EOB text")])>>,
     <<"assistant", Rec([chart |-> Str("chart note")])>>,
     <<"validator", Rec([chart |-> Str("chart note"),
                         codes |-> Arr(<<Str("99213"), Str("E11.9")>>)])>>,
     <<"parser", Rec([document |-> Str("EOB text")])>>}

IncompleteArgs ==
    {<<"process_chart", Rec([specialty |-> Str("Cardiology")])>>,
     <<"validate_codes", Rec([patient_chart |-> Str("chart note")])>>,
     <<"assistant", Rec([specialty |-> Str("Cardiology")])>>,
     <<"validator", Rec([chart |-> Str("chart note")])>>,
     <<"validator", Rec([codes |-> Arr(<<Str("99213")>>)])>>}

SomeArgs == Rec([text |-> Str("chart note")])

\* The params of the tools/call requests: the shapes the handlers reject, every
\* tool of every transport with complete arguments, and this transport's tools
\* with incomplete ones.
RejectedParams ==
    {Undefined, Null,
     Rec([name |-> Str("process_chart")]),
     Rec([arguments |-> SomeArgs]),
     Rec([name |-> Str(""), arguments |-> SomeArgs]),
     Rec([name |-> Str("no_such_tool"), arguments |-> SomeArgs]),
     Rec([name |-> Str("no_such_tool")])}

ToolParams(pairs) == {Rec([name |-> Str(na[1]), arguments |-> na[2]]) : na \in pairs}

GoodParams(t) ==
    IF t = "http"
    THEN Rec([name |-> Str("assistant"), arguments |-> Rec([chart |-> Str("chart note")])])
    ELSE Rec([name |-> Str("process_chart"), arguments |-> SomeArgs])

\* Ids of every type on the envelope and method paths; the tool calls carry
\* the id 0, and a string id for the calls of the transport's first tool and
\* for the incomplete ones.
Messages(t) ==
    {Message(Str("1.0"), i, Str("tools/call"), GoodParams(t)) : i \in Ids}
    \cup {Message(Undefined, Num(0), Str("ping"), Undefined)}
    \cup {Message(Str("2.0"), i, m, Undefined) : i \in Ids, m \in {Str("ping"), Str("foo")}}
    \cup {Message(Str("2.0"), Num(0), m, Undefined) :
            m \in {Str("initialize"), Str("tools/list"), Undefined}}
    \cup {Message(Str("2.0"), i, Str("tools/call"), p) : i \in CallIds, p \in RejectedParams}
    \cup {Message(Str("2.0"), Num(0), Str("tools/call"), p) : p \in ToolParams(CompleteArgs)}
    \cup {Message(Str("2.0"), Str("a"), Str("tools/call"), p) :
            p \in {GoodParams(t)}
                  \cup ToolParams({x \in IncompleteArgs : x[1] \in ToolNames(t)})}

\* Replies of the upstream API to a forwarded request.
Body1 == Obj(<<Member(<<"r", "a", "f">>, Obj(<<Member(<<"f", "i", "n", "a", "l">>, Num(123))>>))>>)
Body2 ==
    Obj(<<Member(<<"c", "o", "d", "e", "s">>,
                 Arr(<<Text(<<"E", "1", "1", ".", "9">>), Text(<<"a", Quote, Backslash, Newline, " ">>),
                       Num(-7), Null, Bool(FALSE), Arr(<<>>), Obj(<<>>)>>)),
          Member(<<"o", "k">>, Bool(TRUE))>>)

ErrorBody == Obj(<<Member(<<"d", "e", "t", "a", "i", "l">>, Text(<<"b", "o", "o", "m">>))>>)

HttpReply(status, statusText, text) ==
    [kind |-> "http", status |-> status, statusText |-> statusText, text |-> text]

UpstreamReplies ==
    {[kind |-> "network"],
     HttpReply(500, "Internal Server Error", StringifyAt(ErrorBody, 0, 0)),
     HttpReply(200, "OK", StringifyAt(Body1, 0, 0)),
     HttpReply(200, "OK", StringifyAt(Body2, 0, 0)),
     HttpReply(200, "OK", <<"<", "h", "t", "m", "l", ">">>)}

\* The replies tried for a request: all of them on the chart endpoint, a
\* failure and a success on the others.
RepliesTo(request) ==
    IF request.url \in {prodApiUrl \o "/process-chart", sandboxApiUrl \o "/process-chart"}
    THEN UpstreamReplies
    ELSE {[kind |-> "network"], HttpReply(200, "OK", StringifyAt(Body1, 0, 0))}

\* The outcomes of logUsage tried after a request: both on the chart
\* endpoint, a resolved one on the others.
LogOutcomesTo(request) ==
    IF request.url \in {prodApiUrl \o "/process-chart", sandboxApiUrl \o "/process-chart"}
    THEN LogOutcomes
    ELSE {"resolves"}

\* Replies of the key-validation service.
KeyData1 == Rec([id |-> Num(7), user_id |-> Num(3), environment |-> Str("sandbox")])
KeyReply(status, valid, keyData) ==
    [kind |-> "http", status |-> status, valid |-> valid, keyData |-> keyData]
KeyReplies ==
    {[kind |-> "network"],
     KeyReply(401, Bool(FALSE), Undefined),
     KeyReply(200, Bool(FALSE), Undefined),
     KeyReply(200, Bool(TRUE), KeyData1),
     KeyReply(200, Bool(TRUE), Undefined)}

\* The handshake of the WebSocket connection, and the headers of an HTTP request.
WsHandshakes ==
    {[query |-> Undefined, header |-> Undefined],
     [query |-> Undefined, header |-> Str("key-h")],
     [query |-> Str("key-q"), header |-> Str("key-h")]}
KeyHeaders == [xApiKey |-> Str("key-h"), bearer |-> Undefined]
NoHeaders == [xApiKey |-> Undefined, bearer |-> Undefined]

\* The REST requests: bodies the schemas accept and bodies they refuse, with
\* an x-api-key header and without one.
ChartText == [text |-> Str("chart note")]
RestBodies ==
    {<<"process_chart", Rec(ChartText)>>,
     <<"process_chart", Rec(<<>>)>>,
     <<"process_chart", Rec([text |-> Str("")])>>,
     <<"process_chart", Rec([text |-> Num(5)])>>,
     <<"process_chart", Rec([text |-> Str("chart note"), specialty |-> Str("Cardiology")])>>,
     <<"process_chart", Rec([text |-> Str("chart note"), specialty |-> Str("Dermatology")])>>,
     <<"process_chart", Rec([text |-> Str("chart note"), specialty |-> Str("Cardiology"),
                             taxonomy_code |-> Str("207RC0000X")])>>,
     <<"process_chart", Rec([text |-> Str("chart note"), foo |-> Str("bar")])>>,
     <<"validate_codes", Rec([patient_chart |-> Str("chart note"),
                              human_coded_output |-> Str("99213")])>>,
     <<"validate_codes", Rec([patient_chart |-> Str("chart note")])>>,
     <<"calculate_raf", Rec([demographics |-> Str("65M"), illnesses |-> Str("diabetes")])>>,
     <<"calculate_raf", Rec([demographics |-> Str("65M"), illnesses |-> Str("diabetes"),
                             model |-> Str("V99")])>>,
     <<"qa_validate_codes", Rec([coded_input |-> Str("99213")])>>,
     <<"parse_eob", Rec([content |-> Str("EOB text")])>>,
     <<"parse_eob", Rec(<<>>)>>}
RestRequests ==
    {<<b[1], b[2], KeyHeaders>> : b \in RestBodies}
    \cup {<<"process_chart", b, NoHeaders>> : b \in {Rec(ChartText), Rec(<<>>)}}

\* The validation service's replies to a REST request's key: every reply for
\* the chart route's accepted body and its empty one, an accepted key for the
\* other requests.
KeyData2 == Rec([id |-> Num(8), user_id |-> Num(3), environment |-> Str("prod")])
RestKeyReplies == KeyReplies \cup {KeyReply(200, Bool(TRUE), KeyData2)}
RestKeyRepliesTo(c) ==
    IF c.tool = "process_chart" /\ c.body \in {Rec(ChartText), Rec(<<>>)}
    THEN RestKeyReplies
    ELSE {KeyReply(200, Bool(TRUE), KeyData1)}

MaxElapsedMs == 1

(***************************************************************************)
(* State: the calls being served (a slot is free, or holds a call from its *)
(* arrival until its response has been consumed), and the req object of    *)
(* the WebSocket connection, which all its calls share.                    *)
(***************************************************************************)
VARIABLES calls, wsReq, proc
vars == <<calls, wsReq, proc>>

Slots == DOMAIN calls
NoCall == [pc |-> "free"]
NoReply == [kind |-> "none"]
NoMessage == [kind |-> "none"]

\* The req and the socket of the WebSocket connection before the handshake.
\* isAlive is the socket's keep-alive flag; pinged, pong and ticks record
\* what the keep-alive has done: a ping was sent at the last tick, a pong has
\* arrived since, and how many times the interval's callback has run.
NoConnection ==
    [query |-> Undefined, header |-> Undefined, apiKeyData |-> Undefined,
     readyState |-> "connecting", first |-> NoMessage,
     isAlive |-> Undefined, pinged |-> FALSE, pong |-> FALSE, ticks |-> 0]

NewCall(t, message, headers) ==
    [t |-> t, message |-> message, headers |-> headers, pc |-> "new",
     apiKeyData |-> Undefined, keyCheck |-> "none", fetched |-> <<>>,
     reply |-> NoReply, usage |-> <<>>, logThrew |-> FALSE, sent |-> <<>>]

\* ws.send(JSON.stringify(response)) / console.log(JSON.stringify(response)) /
\* res.status(status).json(response): the call's handler ends with it.
Answer(c, status, response) ==
    [c EXCEPT !.pc = "done",
              !.sent = Append(@, [status |-> status, body |-> Serialize(response)])]

\* Fetch that issues the request a second time.
FetchRetried(c, request) ==
    [c EXCEPT !.pc = "upstream", !.fetched = Append(Append(@, request), request)]

\* const response = await fetch(fullUrl, requestOptions): the one fetch of
\* forwardRequest, which has no loop and no second attempt.
Fetch(c, request) == [c EXCEPT !.pc = "upstream", !.fetched = Append(@, request)]

FreeSlot(i) == calls[i] = NoCall /\ \A j \in Slots : j < i => calls[j] # NoCall

\* A request that arrives while no other call is held is any request of the
\* transport; one that arrives next to another call is one of a few.
Alone == \A j \in Slots : calls[j] = NoCall
ConcurrentMessages(t) ==
    {Message(Str("2.0"), Str("a"), Str("tools/call"), GoodParams(t)),
     Message(Str("2.0"), Null, Str("ping"), Undefined)}
Arriving(t) == IF Alone THEN Messages(t) ELSE ConcurrentMessages(t)

\* The stdio server process reading the text input.
Process(input) ==
    [input |-> input, stdin |-> input, stdout |-> <<>>, stderr |-> <<>>,
     exited |-> FALSE, exitCode |-> Undefined]

Init ==
    /\ calls = [i \in 1..MaxInFlight |-> NoCall]
    /\ wsReq = NoConnection
    /\ proc = Process(<<>>)

NameOf(c) == Field(c.message.params, "name")
ArgsOf(c) == Field(c.message.params, "arguments")
IsFetch(f) == "url" \in DOMAIN f
\* The fetch a call is waiting for.
LastFetch(c) == c.fetched[Len(c.fetched)]

(***************************************************************************)
(* The WebSocket transport.                                                *)
(***************************************************************************)
\* wsToolsCallResponse whose error response also carries a result.
wsToolsCallResponseBoth(id, r) ==
    IF r.threw
    THEN [jsonrpc |-> Str("2.0"), id |-> id, result |-> Null,
          error |-> [code |-> -32603, message |-> Str("Internal error"),
                     data |-> r.message]]
    ELSE ResultResponse(id, TextContent(r.value))

\* wsToolsCallResponse that answers under the id of the connection's first
\* call instead of the id of its own frame.
wsToolsCallResponseFirstId(id, r) ==
    LET first == IF calls[1] # NoCall /\ calls[1].t = "ws" THEN calls[1].message.id ELSE id
    IN IF r.threw THEN ErrorResponseData(first, -32603, "Internal error", r.message)
       ELSE ResultResponse(first, TextContent(r.value))

\* handleToolsCall, the response it returns for the router's outcome r
wsToolsCallResponse(id, r) ==
    IF r.threw THEN ErrorResponseData(id, -32603, "Internal error", r.message)
    ELSE ResultResponse(id, TextContent(r.value))

\* handleToolsCall from its switch (name) to the router's fetch
wsToolsCallSwitch(c, apiKey) ==
    LET f == wsToolFetch(NameOf(c), ArgsOf(c), apiKey)
    IN IF IsFetch(f) THEN Fetch(c, f)
       ELSE Answer(c, Undefined, ErrorResponse(c.message.id, -32601, "Unknown tool"))

\* The message the connection handler sends once its handlers are registered.
InitializedNotification ==
    [jsonrpc |-> Str("2.0"), method |-> Str("notifications/initialized"),
     params |-> ServerInfo(Str("1.0.0"))]

\* ws.send(data): the connection remembers the first message sent on it.
wsSend(req, data) == IF req.first = NoMessage THEN [req EXCEPT !.first = data] ELSE req

\* What a handler that has run up to c leaves on the connection.
wsAfter(req, c) == IF c.pc = "done" THEN wsSend(req, c.sent[Len(c.sent)].body) ELSE req

\* wsOnConnection that sends nothing.
wsOnConnectionSilent(req) == [req EXCEPT !.readyState = "open"]

\* wss.on('connection'): the handlers are registered, then the notification
\* is sent, all before the first message event can be delivered.
wsOnConnection(req) ==
    wsSend([req EXCEPT !.readyState = "open", !.isAlive = Bool(TRUE)],
           Serialize(InitializedNotification))

WsConnection(h) ==
    /\ wsReq.readyState = "connecting"
    /\ wsReq' = wsOnConnection([wsReq EXCEPT !.query = h.query, !.header = h.header])
    /\ UNCHANGED <<calls, proc>>

\* wsOnMessageError reporting a parse error.
wsOnMessageErrorParse(message) == ErrorResponseData(Null, -32700, "Parse error", message)

\* The catch of ws.on('message'): the error's message goes back under id null.
wsOnMessageError(message) == ErrorResponseData(Null, -32600, "Invalid Request", message)

\* ws.on('message') once JSON.parse has returned message, a value that is
\* not an object: destructuring null throws; any other value has no jsonrpc
\* member and handleMCPMessage rejects it.
wsOnMessageParsed(message) ==
    IF message = SyntaxError THEN wsOnMessageError(Str("Unexpected token in JSON"))
    ELSE IF ~CanDestructure(message)
         THEN wsOnMessageError(
                Str("Cannot destructure property 'jsonrpc' of 'message' as it is null."))
    ELSE ErrorResponse(Undefined, -32600, "Invalid Request")

\* ws.on('message') for a frame whose text is not the JSON of an object:
\* JSON.parse throws into the catch, or returns a value.
wsOnMessage(data) == wsOnMessageParsed(Parse(data))

WsFrame(data) ==
    \E i \in Slots :
      /\ FreeSlot(i)
      /\ wsReq.readyState = "open"
      /\ calls' = [calls EXCEPT ![i] =
                     Answer(NewCall("wsframe", [frame |-> data], NoHeaders), Undefined,
                            wsOnMessage(data))]
      /\ wsReq' = wsAfter(wsReq, calls'[i])
      /\ UNCHANGED proc

\* ws.on('message') for a frame that parses to the object message: up to the
\* response, or up to the first await of handleToolsCall.
WsMessage(message) ==
    \E i \in Slots :
      /\ FreeSlot(i)
      /\ wsReq.readyState = "open"
      /\ LET c == NewCall("ws", message, NoHeaders)
             r == handleMCPMessage(message)
             apiKey == extractApiKeyFromWebSocket(wsReq)
         IN IF r.kind = "respond"
            THEN /\ calls' = [calls EXCEPT ![i] = Answer(c, r.status, r.response)]
                 /\ wsReq' = wsAfter(wsReq, calls'[i])
            ELSE IF ~Truthy(apiKey)
            THEN /\ calls' = [calls EXCEPT ![i] =
                      wsToolsCallSwitch([c EXCEPT !.apiKeyData = DefaultKeyData], apiKey)]
                 /\ wsReq' = wsAfter([wsReq EXCEPT !.apiKeyData = DefaultKeyData], calls'[i])
            ELSE /\ calls' = [calls EXCEPT ![i] = [c EXCEPT !.pc = "validateKey"]]
                 /\ UNCHANGED wsReq
      /\ UNCHANGED proc

\* handleToolsCall resumes after await validateApiKeyData(apiKey)
WsKeyValidated(i, reply) ==
    /\ calls[i] # NoCall
    /\ calls[i].t = "ws"
    /\ calls[i].pc = "validateKey"
    /\ LET r == validateApiKeyDataReturn(reply)
           apiKeyData == IF r.threw THEN DefaultKeyData ELSE r.value
       IN /\ calls' = [calls EXCEPT ![i] =
                         wsToolsCallSwitch([calls[i] EXCEPT !.apiKeyData = apiKeyData,
                                                            !.keyCheck = KeyCheckOf(reply)],
                                           extractApiKeyFromWebSocket(wsReq))]
          /\ wsReq' = wsAfter([wsReq EXCEPT !.apiKeyData = apiKeyData], calls'[i])
    /\ UNCHANGED proc

\* handleToolsCall resumes after the router's await: logUsage, then the
\* response.  Reading req.apiKeyData.id of an undefined apiKeyData throws
\* inside the try around logUsage, and nothing is logged.  What follows
\* await logUsage reads only the call's own id and result.
WsUpstreamReturns(i, reply, outcome) ==
    /\ calls[i] # NoCall
    /\ calls[i].t = "ws"
    /\ calls[i].pc = "upstream"
    /\ reply \in RepliesTo(LastFetch(calls[i]))
    /\ outcome \in LogOutcomesTo(LastFetch(calls[i]))
    /\ LET c == calls[i]
           r == forwardRequestReturn(reply)
           logged == IF CanDestructure(wsReq.apiKeyData)
                     THEN <<UsageOf(wsRequestId, Field(wsReq.apiKeyData, "id"),
                                    NameOf(c), ArgsOf(c), r)>>
                     ELSE <<>>
       IN calls' = [calls EXCEPT ![i] =
                      Answer([c EXCEPT !.reply = reply, !.usage = @ \o logged,
                                       !.logThrew = logged # <<>> /\ outcome = "rejects"],
                             Undefined,
                             IF logged = <<>> THEN wsToolsCallResponse(c.message.id, r)
                             ELSE afterLogUsage(outcome, wsToolsCallResponse(c.message.id, r)))]
    /\ wsReq' = wsAfter(wsReq, calls'[i])
    /\ UNCHANGED proc

(***************************************************************************)
(* The keep-alive of the WebSocket server: setInterval runs its callback   *)
(* every 30 seconds over wss.clients; a pong frame of the client runs the  *)
(* socket's 'pong' handler.                                                *)
(***************************************************************************)
MaxTicks == 3

\* ws.on('pong', () => { ws.isAlive = true })
wsOnPong(ws) == [ws EXCEPT !.isAlive = Bool(TRUE), !.pong = TRUE]

\* The interval's callback that pings without clearing isAlive.
keepAliveLenient(ws) == [ws EXCEPT !.pinged = TRUE, !.pong = FALSE]

\* The body of wss.clients.forEach for one open socket: terminate it when
\* isAlive === false, else clear isAlive and ping.
keepAlive(ws) ==
    IF ws.isAlive = Bool(FALSE)
    THEN [ws EXCEPT !.readyState = "terminated"]
    ELSE [ws EXCEPT !.isAlive = Bool(FALSE), !.pinged = TRUE, !.pong = FALSE]

\* A pong frame arrives on the open connection, in answer to a ping or not.
WsPong ==
    /\ wsReq.readyState = "open"
    /\ wsReq' = wsOnPong(wsReq)
    /\ UNCHANGED <<calls, proc>>

\* The interval fires: only an open socket is in wss.clients.
KeepAliveTick ==
    /\ wsReq.ticks < MaxTicks
    /\ wsReq' = [(IF wsReq.readyState = "open" THEN keepAlive(wsReq) ELSE wsReq)
                   EXCEPT !.ticks = @ + 1]
    /\ UNCHANGED <<calls, proc>>

\* The client closes the connection: ws.on('close') only logs.
WsClose ==
    /\ wsReq.readyState = "open"
    /\ wsReq' = [wsReq EXCEPT !.readyState = "closed"]
    /\ UNCHANGED <<calls, proc>>

(***************************************************************************)
(* The stdio transport, one line holding one envelope per chunk.           *)
(***************************************************************************)
stdioToolsCallResponse(id, r) ==
    IF r.threw THEN sendError(id, -32603, "Internal error", r.message)
    ELSE ResultResponse(id, TextContent(r.value))

StdioLine(message) ==
    \E i \in Slots :
      /\ FreeSlot(i)
      /\ LET c == NewCall("stdio", message, NoHeaders)
             r == processMessage(message)
             f == stdioToolFetch(NameOf(c), ArgsOf(c), stdioApiKey)
         IN calls' = [calls EXCEPT ![i] =
              IF r.kind = "respond" THEN Answer(c, r.status, r.response)
              ELSE IF IsFetch(f) THEN Fetch(c, f)
              ELSE Answer(c, Undefined, sendError(message.id, -32601, "Unknown tool", Null))]
      /\ UNCHANGED <<wsReq, proc>>

StdioUpstreamReturns(i, reply, outcome) ==
    /\ calls[i] # NoCall
    /\ calls[i].t = "stdio"
    /\ calls[i].pc = "upstream"
    /\ reply \in RepliesTo(LastFetch(calls[i]))
    /\ outcome \in LogOutcomesTo(LastFetch(calls[i]))
    /\ LET c == calls[i]
           r == forwardRequestReturn(reply)
           logged == <<UsageOf(stdioRequestId(i), Num(1), NameOf(c), ArgsOf(c), r)>>
       IN calls' = [calls EXCEPT ![i] =
                      Answer([c EXCEPT !.reply = reply, !.usage = @ \o logged,
                                       !.logThrew = (outcome = "rejects")],
                             Undefined,
                             afterLogUsage(outcome, stdioToolsCallResponse(c.message.id, r)))]
    /\ UNCHANGED <<wsReq, proc>>

(***************************************************************************)
(* The stdio server on its streams.  The text on standard input is a       *)
(* sequence of pieces: a newline, the two halves of the JSON text of an    *)
(* envelope, a text that is not JSON.  A 'data' event delivers a chunk, any *)
(* number of the pieces that follow.                                       *)
(***************************************************************************)
NL == [k |-> "nl"]
HeadOf(m) == [k |-> "head", m |-> m]
TailOf(m) == [k |-> "tail", m |-> m]
Junk == [k |-> "junk"]

\* String.prototype.trim and split('\n') on a chunk
RECURSIVE TrimLeft(_)
TrimLeft(data) == IF data # <<>> /\ Head(data) = NL THEN TrimLeft(Tail(data)) ELSE data
RECURSIVE TrimRight(_)
TrimRight(data) ==
    IF data # <<>> /\ data[Len(data)] = NL
    THEN TrimRight(SubSeq(data, 1, Len(data) - 1)) ELSE data
Trim(data) == TrimRight(TrimLeft(data))

RECURSIVE Split(_, _)
Split(data, line) ==
    IF data = <<>> THEN <<line>>
    ELSE IF Head(data) = NL THEN <<line>> \o Split(Tail(data), <<>>)
    ELSE Split(Tail(data), Append(line, Head(data)))

\* JSON.parse(line): the envelope when the line is the whole text of one
ParseLine(line) ==
    IF Len(line) = 2 /\ line[1].k = "head" /\ line[2].k = "tail" /\ line[1].m = line[2].m
    THEN line[1].m
    ELSE SyntaxError

\* The console.log lines of forwardRequest and of logUsage
forwardRequestLog(environment, f) ==
    Str("[MCP Router] Forwarding " \o f.method \o " request to " \o f.url
        \o " (environment: " \o environment \o ")")
forwardRequestSuccessLog(environment) ==
    Str("[MCP Router] Successfully forwarded request to " \o environment \o " API service")
logUsageLog(requestId) == Str("Usage logged for request " \o requestId.s)

\* The standard output the router leaves after the fetch, and its standard error
forwardRequestOut(environment, r) ==
    IF r.threw THEN <<>> ELSE <<forwardRequestSuccessLog(environment)>>
forwardRequestErr(environment, r) ==
    IF r.threw
    THEN <<"[MCP Router] Error forwarding request to " \o environment \o " API service:">>
    ELSE <<>>

\* The catch of handleMessage: this.sendError(...) builds the error response
\* and the catch drops it, so standard output is left as it was.
handleMessageCatch(out) == out

\* The for loop of handleMessage from the line lines[1] on, with out and err
\* what the process has written so far: up to the end of the chunk, to the
\* catch, or to the await of the router's fetch in handleToolsCall.
RECURSIVE handleLines(_, _, _)
handleLines(lines, out, err) ==
    IF lines = <<>> THEN [out |-> out, err |-> err, wait |-> NoCall]
    ELSE LET line == Head(lines)
             message == ParseLine(line)
             r == processMessage(message)
             f == stdioToolFetch(Field(message.params, "name"),
                                 Field(message.params, "arguments"), stdioApiKey)
         IN IF line = <<>> THEN handleLines(Tail(lines), out, err)
            ELSE IF message = SyntaxError
            THEN [out |-> handleMessageCatch(out),
                  err |-> Append(err, "Error handling message:"), wait |-> NoCall]
            ELSE IF r.kind = "respond"
            THEN handleLines(Tail(lines), Append(out, Serialize(r.response)), err)
            ELSE IF IsFetch(f)
            THEN [out |-> Append(out, forwardRequestLog("prod", f)), err |-> err,
                  wait |-> [t |-> "stdin", message |-> message, pc |-> "upstream",
                            fetched |-> <<f>>, lines |-> Tail(lines)]]
            ELSE handleLines(Tail(lines),
                   Append(out, Serialize(sendError(message.id, -32601, "Unknown tool", Null))),
                   err)

\* process.stdin.on('data', handleMessage) for a chunk of k pieces
StdinData(k) ==
    /\ ~proc.exited
    /\ k \in 1..Len(proc.stdin)
    /\ LET h == handleLines(Split(Trim(SubSeq(proc.stdin, 1, k)), <<>>),
                            proc.stdout, proc.stderr)
       IN /\ proc' = [proc EXCEPT !.stdin = SubSeq(@, k + 1, Len(@)),
                                  !.stdout = h.out, !.stderr = h.err]
          /\ IF h.wait = NoCall THEN UNCHANGED calls
             ELSE \E i \in Slots : FreeSlot(i) /\ calls' = [calls EXCEPT ![i] = h.wait]
    /\ UNCHANGED wsReq

\* handleToolsCall resumes after the router's await: the router's log, the
\* usage logger's, the response line, then the rest of the chunk's lines.
StdinUpstreamReturns(i, reply, outcome) ==
    /\ ~proc.exited
    /\ calls[i] # NoCall
    /\ calls[i].t = "stdin"
    /\ calls[i].pc = "upstream"
    /\ reply \in RepliesTo(LastFetch(calls[i]))
    /\ LET c == calls[i]
           r == forwardRequestReturn(reply)
           response == afterLogUsage(outcome, stdioToolsCallResponse(c.message.id, r))
           logOut == IF outcome = "resolves" THEN <<logUsageLog(stdioRequestId(i))>> ELSE <<>>
           logErr == IF outcome = "resolves" THEN <<>> ELSE <<"Error logging usage:">>
           h == handleLines(c.lines,
                            proc.stdout \o forwardRequestOut("prod", r) \o logOut
                              \o <<Serialize(response)>>,
                            proc.stderr \o forwardRequestErr("prod", r) \o logErr)
       IN /\ calls' = [calls EXCEPT ![i] = h.wait]
          /\ proc' = [proc EXCEPT !.stdout = h.out, !.stderr = h.err]
    /\ UNCHANGED wsReq

\* stdinOnEnd leaving with the failure code.
stdinOnEndFailure(p) ==
    [p EXCEPT !.stderr = Append(@, "MCP Server stdin ended"), !.exited = TRUE,
              !.exitCode = Num(1)]

\* process.stdin.on('end'): console.error and process.exit(0)
stdinOnEnd(p) ==
    [p EXCEPT !.stderr = Append(@, "MCP Server stdin ended"), !.exited = TRUE,
              !.exitCode = Num(0)]

\* The 'end' event is emitted once every chunk has been delivered.
StdinOnEnd ==
    /\ ~proc.exited
    /\ proc.input # <<>>
    /\ proc.stdin = <<>>
    /\ proc' = stdinOnEnd(proc)
    /\ UNCHANGED <<calls, wsReq>>

(***************************************************************************)
(* The HTTP JSON-RPC endpoint, POST /mcp/inspect.                          *)
(***************************************************************************)
\* httpToolsCallResponse that stringifies result instead of result.data.
httpToolsCallResponseWhole(id, r) ==
    IF r.threw THEN ErrorResponseData(id, -32603, "Internal error", r.message)
    ELSE ResultResponse(id, TextContent(r.value))

httpToolsCallResponse(id, r) ==
    IF r.threw THEN ErrorResponseData(id, -32603, "Internal error", r.message)
    ELSE ResultResponse(id, TextContent(ObjField(r.value, DataKey)))

HttpPost(message, headers) ==
    \E i \in Slots :
      /\ FreeSlot(i)
      /\ LET c == NewCall("http", message, headers)
             r == inspectPost(message)
             keyed == [c EXCEPT !.apiKeyData = DefaultKeyData]
             f == httpToolFetch(NameOf(c), ArgsOf(c), extractApiKeyHTTP(headers))
         IN calls' = [calls EXCEPT ![i] =
              IF r.kind = "respond" THEN Answer(c, r.status, r.response)
              ELSE IF IsFetch(f) THEN Fetch(keyed, f)
              ELSE IF f = NoFetch
              THEN Answer(keyed, Num(200),
                          ErrorResponse(message.id, -32601, "Unknown tool"))
              ELSE Answer(keyed, Num(200),
                          httpToolsCallResponse(message.id, Throw(f.message)))]
      /\ UNCHANGED <<wsReq, proc>>

HttpUpstreamReturns(i, reply) ==
    /\ calls[i] # NoCall
    /\ calls[i].t = "http"
    /\ calls[i].pc = "upstream"
    /\ reply \in RepliesTo(LastFetch(calls[i]))
    /\ LET c == calls[i]
           r == callApiServiceReturn(forwardRequestReturn(reply))
       IN calls' = [calls EXCEPT ![i] =
                      Answer([c EXCEPT !.reply = reply], Num(200),
                             httpToolsCallResponse(c.message.id, r))]
    /\ UNCHANGED <<wsReq, proc>>

(***************************************************************************)
(* The REST tool endpoints behind app.use(validateApiKey).                 *)
(***************************************************************************)
NewRestCall(tool, body, headers) ==
    [t |-> "rest", tool |-> tool, body |-> body, headers |-> headers, pc |-> "new",
     apiKeyData |-> Undefined, keyCheck |-> "none", requestId |-> Undefined,
     validation |-> Undefined, fetched |-> <<>>, reply |-> NoReply, usage |-> <<>>,
     logThrew |-> FALSE, sent |-> <<>>]

\* res.status(status).json(body)
RestAnswer(c, status, body) ==
    [c EXCEPT !.pc = "done", !.sent = Append(@, [status |-> Num(status), body |-> body])]

\* logMCPUsage: the record it hands to logUsage; reading req.apiKeyData.id of
\* an undefined apiKeyData throws inside its try, and nothing is handed over.
logMCPUsage(c, requestData, responseData, statusCode, errorMessage) ==
    IF CanDestructure(c.apiKeyData)
    THEN <<UsageRecord(c.requestId, Field(c.apiKeyData, "id"), Str(c.tool), requestData,
                       responseData, statusCode, errorMessage)>>
    ELSE <<>>

\* await logMCPUsage(...) before the response: its catch keeps a rejection
\* of logUsage from the route.
afterLogMCPUsage(outcome, c, answered) ==
    [answered EXCEPT !.logThrew = (outcome = "rejects" /\ answered.usage # c.usage)]

\* The statusCode argument of the logMCPUsage call after a successful
\* upstream call: apiResponse.status, but the parse_eob route passes
\* processingTime in its place.
loggedStatusCode(tool, status, processingTime) ==
    IF tool = "parse_eob" THEN processingTime ELSE status

\* The route handler up to its first await after the validation.
toolRoute(c0, n, outcome) ==
    LET c == [c0 EXCEPT !.requestId = uuidv4(n)]
        checked == validate(toolRoutes[c.tool].schema, c.body)
    IN IF checked.error # Undefined
       THEN afterLogMCPUsage(outcome, c,
              RestAnswer([c EXCEPT !.validation = checked.error,
                                   !.usage = @ \o logMCPUsage(c, c.body, Null, 400,
                                                              checked.error)],
                         400, ValidationErrorBody(c.tool, c.requestId, checked.error)))
       ELSE Fetch([c EXCEPT !.validation = Null],
                  routesCallApiService(toolRoutes[c.tool].endpoint, checked.value,
                                       c.headers.xApiKey, routeEnvironment(c.apiKeyData)))

\* validateApiKey, the middleware: no x-api-key header, 401; else the key is
\* sent to the validation service.
RestPost(tool, body, headers) ==
    \E i \in Slots :
      /\ FreeSlot(i)
      /\ LET c == NewRestCall(tool, body, headers)
         IN calls' = [calls EXCEPT ![i] =
              IF ~Truthy(headers.xApiKey)
              THEN RestAnswer(c, 401, KeyErrorBody("API key required"))
              ELSE [c EXCEPT !.pc = "validateKey"]]
      /\ UNCHANGED <<wsReq, proc>>

\* validateApiKey after its fetch: 500 when the fetch threw, 401 when the
\* service did not accept the key, else next() runs the route.
RestKeyValidated(i, reply, outcome) ==
    /\ calls[i] # NoCall
    /\ calls[i].t = "rest"
    /\ calls[i].pc = "validateKey"
    /\ reply \in RestKeyRepliesTo(calls[i])
    /\ LET c == [calls[i] EXCEPT !.keyCheck = KeyCheckOf(reply)]
       IN calls' = [calls EXCEPT ![i] =
            IF reply.kind = "network"
            THEN RestAnswer(c, 500, KeyErrorBody("API key validation failed"))
            ELSE IF reply.status \notin 200..299 \/ ~Truthy(reply.valid)
            THEN RestAnswer(c, 401, KeyErrorBody("Invalid API key"))
            ELSE toolRoute([c EXCEPT !.apiKeyData = reply.keyData], i, outcome)]
    /\ UNCHANGED <<wsReq, proc>>

\* The route resumes after await callApiService(...): logMCPUsage, then the
\* response; what callApiService threw goes to the route's catch.
RestUpstreamReturns(i, reply, outcome, processingTime) ==
    /\ calls[i] # NoCall
    /\ calls[i].t = "rest"
    /\ calls[i].pc = "upstream"
    /\ reply \in RepliesTo(LastFetch(calls[i]))
    /\ outcome \in LogOutcomesTo(LastFetch(calls[i]))
    /\ processingTime \in (IF calls[i].tool = "parse_eob" THEN 0..MaxElapsedMs ELSE {0})
    /\ LET c == [calls[i] EXCEPT !.reply = reply]
           r == callApiServiceReturn(forwardRequestReturn(reply))
           value == LastFetch(c).body
       IN calls' = [calls EXCEPT ![i] =
            afterLogMCPUsage(outcome, c,
              IF r.threw
              THEN RestAnswer([c EXCEPT !.usage = @ \o logMCPUsage(c, c.body, Null, 500,
                                                                   r.message)],
                              500, InternalErrorBody(c.tool, c.requestId, r.message))
              ELSE RestAnswer([c EXCEPT !.usage = @ \o
                                 logMCPUsage(c, value, ObjField(r.value, DataKey),
                                             loggedStatusCode(c.tool, 200, processingTime),
                                             Null)],
                              200, SuccessBody(c.tool, c.requestId,
                                               ObjField(r.value, DataKey))))]
    /\ UNCHANGED <<wsReq, proc>>

(***************************************************************************)
(* The express application: the layers a GET request passes, in the order  *)
(* of their registration.  A layer handles the paths it matches;           *)
(* validateApiKey matches every path and passes the request on with next(). *)
(***************************************************************************)
GetPaths ==
    {"/health", "/capabilities", "/capabilities/openai-tools", "/", "/mcp.json",
     "/mcp/inspect", "/mcp", "/mcp/tools", "/nowhere"}

\* appLayers with validateApiKey registered first.
appLayersKeyFirst ==
    <<[name |-> "validateApiKey", paths |-> GetPaths],
      [name |-> "healthRoutes", paths |-> {"/health"}],
      [name |-> "capabilitiesRoutes", paths |-> {"/capabilities", "/capabilities/openai-tools"}],
      [name |-> "mcpRoutes", paths |-> {"/mcp", "/mcp/tools"}],
      [name |-> "notFound", paths |-> GetPaths]>>

appLayers ==
    <<[name |-> "healthRoutes", paths |-> {"/health"}],
      [name |-> "capabilitiesRoutes", paths |-> {"/capabilities", "/capabilities/openai-tools"}],
      [name |-> "root", paths |-> {"/"}],
      [name |-> "mcpJson", paths |-> {"/mcp.json"}],
      [name |-> "inspectInfo", paths |-> {"/mcp/inspect"}],
      [name |-> "validateApiKey", paths |-> GetPaths],
      [name |-> "mcpRoutes", paths |-> {"/mcp", "/mcp/tools"}],
      [name |-> "notFound", paths |-> GetPaths]>>

\* The layer that answers a GET of path, and whether validateApiKey stood
\* before it.
RECURSIVE appRoute(_, _, _)
appRoute(layers, path, guarded) ==
    IF path \notin Head(layers).paths THEN appRoute(Tail(layers), path, guarded)
    ELSE IF Head(layers).name = "validateApiKey" THEN appRoute(Tail(layers), path, TRUE)
    ELSE [name |-> Head(layers).name, guarded |-> guarded]

NewGetCall(path, headers) ==
    [t |-> "get", path |-> path, headers |-> headers, pc |-> "new", route |-> "none",
     apiKeyData |-> Undefined, keyCheck |-> "none", fetched |-> <<>>, usage |-> <<>>,
     logThrew |-> FALSE, sent |-> <<>>]

\* res.json(...) of the route handlers, res.status(404).json(...) of the last
getRoute(c, name) ==
    LET served == [c EXCEPT !.route = name]
        names == [n \in 1..Len(wsTools) |-> Str(wsTools[n].name)]
    IN CASE name = "capabilitiesRoutes" ->
              RestAnswer(served, 200, [server |-> ServiceName, tools |-> names])
         [] name = "mcpRoutes" -> RestAnswer(served, 200, [tools |-> names])
         [] name = "notFound" -> RestAnswer(served, 404, KeyErrorBody("Endpoint not found"))
         [] OTHER -> RestAnswer(served, 200, [service |-> ServiceName])

HttpGet(path, headers) ==
    \E i \in Slots :
      /\ FreeSlot(i)
      /\ LET c == NewGetCall(path, headers)
             r == appRoute(appLayers, path, FALSE)
         IN calls' = [calls EXCEPT ![i] =
              IF ~r.guarded THEN getRoute(c, r.name)
              ELSE IF ~Truthy(headers.xApiKey)
              THEN RestAnswer(c, 401, KeyErrorBody("API key required"))
              ELSE [c EXCEPT !.pc = "validateKey"]]
      /\ UNCHANGED <<wsReq, proc>>

\* validateApiKey after its fetch, for a GET request
GetKeyValidated(i, reply) ==
    /\ calls[i] # NoCall
    /\ calls[i].t = "get"
    /\ calls[i].pc = "validateKey"
    /\ LET c == [calls[i] EXCEPT !.keyCheck = KeyCheckOf(reply)]
       IN calls' = [calls EXCEPT ![i] =
            IF reply.kind = "network"
            THEN RestAnswer(c, 500, KeyErrorBody("API key validation failed"))
            ELSE IF reply.status \notin 200..299 \/ ~Truthy(reply.valid)
            THEN RestAnswer(c, 401, KeyErrorBody("Invalid API key"))
            ELSE getRoute([c EXCEPT !.apiKeyData = reply.keyData],
                          appRoute(appLayers, c.path, FALSE).name)]
    /\ UNCHANGED <<wsReq, proc>>

\* The handler of a call has returned and its response has been consumed.
Retire(i) ==
    /\ calls[i] # NoCall
    /\ calls[i].pc = "done"
    /\ calls' = [calls EXCEPT ![i] = NoCall]
    /\ UNCHANGED <<wsReq, proc>>

\* The HTTP requests: every message without a key, and the first tool's call
\* with an x-api-key header.
HttpRequests ==
    {<<m, NoHeaders>> : m \in Messages("http")}
    \cup {<<Message(Str("2.0"), Num(0), Str("tools/call"), GoodParams("http")), KeyHeaders>>}
ArrivingHttp ==
    IF Alone THEN HttpRequests ELSE {<<m, NoHeaders>> : m \in ConcurrentMessages("http")}
ArrivingRest ==
    IF Alone THEN RestRequests ELSE {<<"process_chart", Rec(ChartText), KeyHeaders>>}

\* Frames whose text is not the JSON of an object.
RawFrames == {<<"{">>, <<"h", "i">>, <<"n", "u", "l", "l">>, <<"5">>, <<"{", "}">>}

\* The GET requests: every path without a key, the discovery paths and the
\* router's paths with one.
GetRequests ==
    {<<path, NoHeaders>> : path \in GetPaths}
    \cup {<<path, KeyHeaders>> : path \in {"/capabilities", "/capabilities/openai-tools",
                                          "/mcp/tools", "/nowhere"}}
ArrivingGet == IF Alone THEN GetRequests ELSE {<<"/capabilities", NoHeaders>>}

Next ==
    \/ \E h \in WsHandshakes : WsConnection(h)
    \/ \E data \in (IF Alone THEN RawFrames ELSE {<<"{">>}) : WsFrame(data)
    \/ \E r \in ArrivingGet : HttpGet(r[1], r[2])
    \/ \E i \in Slots, reply \in KeyReplies : GetKeyValidated(i, reply)
    \/ \E m \in Arriving("ws") : WsMessage(m)
    \/ \E i \in Slots, reply \in KeyReplies : WsKeyValidated(i, reply)
    \/ \E i \in Slots, reply \in UpstreamReplies, outcome \in LogOutcomes :
         WsUpstreamReturns(i, reply, outcome)
    \/ \E m \in Arriving("stdio") : StdioLine(m)
    \/ \E i \in Slots, reply \in UpstreamReplies, outcome \in LogOutcomes :
         StdioUpstreamReturns(i, reply, outcome)
    \/ \E r \in ArrivingHttp : HttpPost(r[1], r[2])
    \/ \E i \in Slots, reply \in UpstreamReplies : HttpUpstreamReturns(i, reply)
    \/ \E r \in ArrivingRest : RestPost(r[1], r[2], r[3])
    \/ \E i \in Slots, reply \in RestKeyReplies, outcome \in LogOutcomes :
         RestKeyValidated(i, reply, outcome)
    \/ \E i \in Slots, reply \in UpstreamReplies, outcome \in LogOutcomes,
          processingTime \in 0..MaxElapsedMs :
         RestUpstreamReturns(i, reply, outcome, processingTime)
    \/ \E i \in Slots : Retire(i)

Spec == Init /\ [][Next]_vars

(***************************************************************************)
(* One WebSocket connection with several tools/call requests in flight:    *)
(* in JavaScript a message handler runs until its next await, so the       *)
(* handlers of the frames interleave at the awaits of handleToolsCall.     *)
(***************************************************************************)
MaxConcurrent == 2

\* The frames: a tools/call of the chart tool under each id; the replies of
\* the validation service and of the upstream API that are tried.
WsConcurrentMessages ==
    {Message(Str("2.0"), Num(n), Str("tools/call"), GoodParams("ws")) : n \in 1..MaxConcurrent}
WsConcurrentKeyReplies == {[kind |-> "network"], KeyReply(200, Bool(TRUE), KeyData1)}
WsConcurrentReplies ==
    {[kind |-> "network"],
     HttpReply(200, "OK", StringifyAt(Body1, 0, 0)),
     HttpReply(200, "OK", StringifyAt(Body2, 0, 0))}

InitWs ==
    /\ calls = [i \in 1..MaxConcurrent |-> NoCall]
    /\ wsReq = NoConnection
    /\ proc = Process(<<>>)

NextWs ==
    \/ \E h \in WsHandshakes : WsConnection(h)
    \/ WsFrame(<<"{">>)
    \/ \E m \in WsConcurrentMessages : WsMessage(m)
    \/ \E i \in Slots, reply \in WsConcurrentKeyReplies : WsKeyValidated(i, reply)
    \/ \E i \in Slots, reply \in WsConcurrentReplies : WsUpstreamReturns(i, reply, "resolves")
    \/ \E i \in Slots : Retire(i)

SpecWs == InitWs /\ [][NextWs]_vars

(***************************************************************************)
(* The stdio server reading a text of up to MaxLines lines, delivered in   *)
(* chunks of any size.                                                     *)
(***************************************************************************)
MaxLines == 2

\* The lines: a ping, a call of the chart tool, a request with a wrong
\* envelope, and a line that is not JSON.
StdinMessages ==
    {Message(Str("2.0"), Num(1), Str("ping"), Undefined),
     Message(Str("2.0"), Num(2), Str("tools/call"), GoodParams("stdio")),
     Message(Str("1.0"), Num(3), Str("ping"), Undefined)}
StdinLines == {<<HeadOf(m), TailOf(m), NL>> : m \in StdinMessages} \cup {<<Junk, NL>>}

RECURSIVE StdinTexts(_)
StdinTexts(n) ==
    IF n = 0 THEN {<<>>}
    ELSE {line \o text : line \in StdinLines, text \in StdinTexts(n - 1)}

InitStdio ==
    /\ calls = [i \in 1..MaxLines |-> NoCall]
    /\ wsReq = NoConnection
    /\ \E n \in 1..MaxLines : \E input \in StdinTexts(n) : proc = Process(input)

NextStdio ==
    \/ \E k \in 1..Len(proc.stdin) : StdinData(k)
    \/ \E i \in Slots, reply \in UpstreamReplies, outcome \in LogOutcomes :
         StdinUpstreamReturns(i, reply, outcome)
    \/ StdinOnEnd

SpecStdio == InitStdio /\ [][NextStdio]_vars

\* The event loop delivers the 'end' event of a stream that has ended.
SpecStdioFair == SpecStdio /\ WF_vars(StdinOnEnd)

(***************************************************************************)
(* One WebSocket connection under the keep-alive: the client answers a     *)
(* ping or not, sends JSON-RPC requests in between, and may close.         *)
(***************************************************************************)
KeepAliveMessages ==
    {Message(Str("2.0"), Num(1), Str("ping"), Undefined),
     Message(Str("2.0"), Num(2), Str("tools/list"), Undefined)}

NextKeepAlive ==
    \/ \E h \in WsHandshakes : WsConnection(h)
    \/ \E m \in KeepAliveMessages : WsMessage(m)
    \/ WsPong
    \/ KeepAliveTick
    \/ WsClose
    \/ \E i \in Slots : Retire(i)

SpecKeepAlive == Init /\ [][NextKeepAlive]_vars

(***************************************************************************)
(* The server process of index.js: startServer awaits initializeDatabase,  *)
(* which opens the SQLite file and then creates the tables, and only then   *)
(* creates the WebSocket server and calls server.listen; its catch exits    *)
(* with code 1.  SIGTERM and SIGINT exit with code 0.  Requests reach the   *)
(* handlers only while the server listens.                                  *)
(***************************************************************************)
Server ==
    [phase |-> "opening", db |-> "closed", exited |-> FALSE, exitCode |-> Undefined,
     signalled |-> FALSE]

\* The catch of startServer that goes on to listen.
startServerCatchListens(p) == [p EXCEPT !.db = "failed", !.phase = "listening"]

\* catch (error) { console.error(...); process.exit(1) }
startServerCatch(p) ==
    [p EXCEPT !.db = "failed", !.phase = "exited", !.exited = TRUE, !.exitCode = Num(1)]

\* After await initializeDatabase(): new WebSocket.Server, createWebSocketHandler,
\* server.listen
startServerListen(p) == [p EXCEPT !.db = "ready", !.phase = "listening"]

\* new sqlite3.Database(dbPath, callback): an error rejects, else createTables
DatabaseOpened(outcome) ==
    /\ proc.phase = "opening"
    /\ proc' = IF outcome = "rejects" THEN startServerCatch(proc)
               ELSE [proc EXCEPT !.db = "open", !.phase = "creating"]
    /\ UNCHANGED <<calls, wsReq>>

\* createTables: an error of a db.run rejects, else initializeDatabase resolves
TablesCreated(outcome) ==
    /\ proc.phase = "creating"
    /\ proc' = IF outcome = "rejects" THEN startServerCatch(proc)
               ELSE startServerListen(proc)
    /\ UNCHANGED <<calls, wsReq>>

\* process.on('SIGTERM') / process.on('SIGINT'): process.exit(0)
Signal ==
    /\ ~proc.exited
    /\ proc' = [proc EXCEPT !.phase = "exited", !.exited = TRUE, !.exitCode = Num(0),
                            !.signalled = TRUE]
    /\ UNCHANGED <<calls, wsReq>>

\* The sockets accept connections once server.listen has run.
Listening == proc.phase = "listening"

ServerKeyReplies == {[kind |-> "network"], KeyReply(200, Bool(TRUE), KeyData1)}
ServerRestRequests ==
    {<<"process_chart", Rec(ChartText), KeyHeaders>>,
     <<"process_chart", Rec(<<>>), KeyHeaders>>,
     <<"process_chart", Rec(ChartText), NoHeaders>>}
ServerGetRequests == {<<"/capabilities", NoHeaders>>, <<"/mcp/tools", KeyHeaders>>}

InitServer ==
    /\ calls = [i \in 1..MaxInFlight |-> NoCall]
    /\ wsReq = NoConnection
    /\ proc = Server

NextServer ==
    \/ \E outcome \in LogOutcomes : DatabaseOpened(outcome)
    \/ \E outcome \in LogOutcomes : TablesCreated(outcome)
    \/ Signal
    \/ Listening /\ \E h \in WsHandshakes : WsConnection(h)
    \/ Listening /\ WsFrame(<<"{">>)
    \/ Listening /\ \E m \in ConcurrentMessages("ws") : WsMessage(m)
    \/ Listening /\ \E i \in Slots, reply \in ServerKeyReplies : WsKeyValidated(i, reply)
    \/ Listening /\ \E i \in Slots, reply \in UpstreamReplies, outcome \in LogOutcomes :
                      WsUpstreamReturns(i, reply, outcome)
    \/ Listening /\ \E m \in ConcurrentMessages("http") : HttpPost(m, NoHeaders)
    \/ Listening /\ \E i \in Slots, reply \in UpstreamReplies : HttpUpstreamReturns(i, reply)
    \/ Listening /\ \E r \in ServerRestRequests : RestPost(r[1], r[2], r[3])
    \/ Listening /\ \E i \in Slots, reply \in ServerKeyReplies, outcome \in LogOutcomes :
                      RestKeyValidated(i, reply, outcome)
    \/ Listening /\ \E i \in Slots, reply \in UpstreamReplies, outcome \in LogOutcomes :
                      RestUpstreamReturns(i, reply, outcome, 0)
    \/ Listening /\ \E r \in ServerGetRequests : HttpGet(r[1], r[2])
    \/ Listening /\ \E i \in Slots, reply \in ServerKeyReplies : GetKeyValidated(i, reply)
    \/ Listening /\ \E i \in Slots : Retire(i)

SpecServer == InitServer /\ [][NextServer]_vars

(***************************************************************************)
(* Properties.                                                             *)
(***************************************************************************)
\* The JSON-RPC calls being served.
Live == {c \in {calls[i] : i \in Slots} \ {NoCall} : c.t \in {"ws", "stdio", "http"}}
Answered(c) == c.pc = "done"
Body(c) == c.sent[1].body
WireId(w) == IF "id" \in DOMAIN w THEN w.id ELSE Undefined
HasError(w, code) == "error" \in DOMAIN w /\ "result" \notin DOMAIN w /\ w.error.code = code
AnsweredWithError(c, code) == Answered(c) /\ Len(c.sent) = 1 /\ HasError(Body(c), code)
ValidEnvelope(c) == c.message.jsonrpc = Str("2.0")
IsToolsCall(c) == ValidEnvelope(c) /\ c.message.method = Str("tools/call")
KnownMethods == {Str("initialize"), Str("tools/list"), Str("tools/call"), Str("ping")}
RegisteredNames(t) == {Str(n) : n \in ToolNames(t)}

\* The upstream call failed: the fetch was rejected, the status is not 2xx, or
\* the body is not JSON.
UpstreamFailed(reply) ==
    IF reply.kind = "network" THEN TRUE
    ELSE reply.status \notin 200..299 \/ Parse(reply.text) = SyntaxError
FailureMessage(reply) ==
    IF reply.kind = "network" THEN Str("fetch failed")
    ELSE IF reply.status \notin 200..299
         THEN Str("API service error: " \o ToString(reply.status) \o " " \o reply.statusText)
    ELSE Str("Unexpected token in JSON")

\* C1: on every transport a request whose jsonrpc is not "2.0" is answered at
\* once with error -32600 and the request's id, and nothing is dispatched for
\* it: no upstream fetch, no usage record, no result.
C1_InvalidEnvelopeRejected ==
    \A c \in Live :
      ~ValidEnvelope(c) =>
        /\ AnsweredWithError(c, -32600)
        /\ WireId(Body(c)) = c.message.id
        /\ c.fetched = <<>>
        /\ c.usage = <<>>

C1_Witness ==
    \E c \in Live :
      /\ c.t = "http" /\ c.message.jsonrpc = Str("1.0") /\ c.message.id = Str("a")
      /\ c.message.method = Str("tools/call") /\ Answered(c)

\* C2 (as claimed): a tools/call that names a tool of the transport's table
\* with arguments lacking one of the tool's required fields is answered with
\* -32602 and no upstream fetch is issued for it.
LacksRequired(c) ==
    /\ IsToolsCall(c)
    /\ NameOf(c) \in RegisteredNames(c.t)
    /\ ArgsOf(c).t = "record"
    /\ LET required == ToolNamed(c.t, NameOf(c).s).required
       IN \E k \in DOMAIN required : required[k] \notin DOMAIN ArgsOf(c).f
C2_MissingRequiredRejected ==
    \A c \in Live :
      LacksRequired(c) =>
        /\ c.fetched = <<>>
        /\ Answered(c) => AnsweredWithError(c, -32602)

\* C3 (as claimed): a tools/call without params.name or without
\* params.arguments, or without params at all, is answered at once with -32602.
C3_MissingParamsRejected ==
    \A c \in Live :
      (IsToolsCall(c) /\ (NameOf(c) = Undefined \/ ArgsOf(c) = Undefined)) =>
        /\ AnsweredWithError(c, -32602)
        /\ c.fetched = <<>>

C5_UnknownMethodRejected ==
    \A c \in Live :
      (ValidEnvelope(c) /\ c.message.method \notin KnownMethods) =>
        /\ AnsweredWithError(c, -32601)
        /\ Body(c).error.message = Str("Method not found")
        /\ c.fetched = <<>>

C5_Witness ==
    \E c \in Live :
      /\ c.t = "stdio" /\ ValidEnvelope(c) /\ c.message.method = Str("foo")
      /\ c.message.id = Null /\ Answered(c)

\* C6: every response sent carries exactly one of result and error.
C6_ResultXorError ==
    \A c \in Live :
      \A k \in DOMAIN c.sent :
        ("result" \in DOMAIN c.sent[k].body) # ("error" \in DOMAIN c.sent[k].body)

C6_Witness ==
    \E c \in Live :
      /\ c.t = "ws" /\ c.reply = [kind |-> "network"] /\ Answered(c)
      /\ "data" \in DOMAIN Body(c).error

\* C7: the id of every response is the id of its request, same type and
\* value; a request without id gets a response without id.
C7_IdEchoed ==
    \A c \in Live :
      \A k \in DOMAIN c.sent : WireId(c.sent[k].body) = c.message.id

C7_Witness ==
    \E c \in Live :
      /\ c.t = "http" /\ c.message.id = Num(0) /\ ~ValidEnvelope(c)
      /\ Answered(c) /\ c.sent[1].status = Num(400) /\ Body(c).id = Num(0)

\* C8: a tools/call whose upstream call failed is answered with exactly one
\* response, the error -32603 whose data is the failure's message, never a
\* result; so is the HTTP validator call whose codes.join throws.
C8_UpstreamFailureReported ==
    \A c \in Live :
      /\ (Answered(c) /\ c.reply # NoReply /\ UpstreamFailed(c.reply)) =>
           /\ AnsweredWithError(c, -32603)
           /\ "data" \in DOMAIN Body(c).error
           /\ Body(c).error.data = FailureMessage(c.reply)
      /\ (c.t = "http" /\ IsToolsCall(c) /\ NameOf(c) = Str("validator")
          /\ Truthy(ArgsOf(c)) /\ Field(ArgsOf(c), "codes").t # "array") =>
           /\ AnsweredWithError(c, -32603)
           /\ "data" \in DOMAIN Body(c).error
           /\ c.fetched = <<>>

C8_Witness ==
    \E c \in Live :
      /\ c.t = "stdio" /\ Answered(c) /\ c.reply # NoReply /\ c.reply.kind = "http"
      /\ c.reply.status = 500

\* C9: a successful tools/call is answered with result.content = one element
\* {type: "text", text: T}, and T parses to the JSON value of the body the
\* upstream returned for that call.
C9_ContentRoundTrip ==
    \A c \in Live :
      (Answered(c) /\ c.reply # NoReply /\ ~UpstreamFailed(c.reply)) =>
        /\ Len(c.sent) = 1
        /\ "result" \in DOMAIN Body(c) /\ "error" \notin DOMAIN Body(c)
        /\ DOMAIN Body(c).result = {"content"}
        /\ Len(Body(c).result.content) = 1
        /\ LET item == Body(c).result.content[1]
           IN /\ DOMAIN item = {"type", "text"}
              /\ item.type = Str("text")
              /\ item.text.t = "text"
              /\ Parse(item.text.c) = Parse(c.reply.text)

C9_Witness ==
    \E c \in Live :
      /\ c.t = "http" /\ Answered(c) /\ c.reply # NoReply /\ c.reply.kind = "http"
      /\ c.reply.text = StringifyAt(Body2, 0, 0)

\* C10 (as claimed): every call that has reached its terminal state has
\* handed exactly one usage record to the logger.
C10_OneUsageRecordPerCall ==
    \A c \in Live : Answered(c) => Len(c.usage) = 1

\* Every call being served, the REST ones included.
AllCalls == {calls[i] : i \in Slots} \ {NoCall}
RestCalls == {c \in AllCalls : c.t = "rest"}
EndedWithError(c) ==
    /\ Answered(c)
    /\ IF c.t = "rest" THEN c.sent[1].status # Num(200) ELSE "error" \in DOMAIN Body(c)

\* C11 (as claimed): every call that ended with an error returned to the
\* caller has handed the logger a usage record whose errorMessage is not null.
C11_ErrorsRecorded ==
    \A c \in AllCalls :
      EndedWithError(c) => Len(c.usage) = 1 /\ c.usage[1].errorMessage # Null

\* The response a tools/call owes its caller for the upstream reply it got.
JsonRpcOutcomeDelivered(c) ==
    /\ Len(c.sent) = 1
    /\ WireId(Body(c)) = c.message.id
    /\ IF UpstreamFailed(c.reply)
       THEN HasError(Body(c), -32603) /\ Body(c).error.data = FailureMessage(c.reply)
       ELSE /\ "result" \in DOMAIN Body(c) /\ "error" \notin DOMAIN Body(c)
            /\ Len(Body(c).result.content) = 1
            /\ Parse(Body(c).result.content[1].text.c) = Parse(c.reply.text)
\* The response a REST request owes its caller: 400 for a refused body, 500
\* with the failure's message, or 200 with the members of the upstream body.
RestOutcomeDelivered(c) ==
    /\ Len(c.sent) = 1
    /\ IF c.reply = NoReply
       THEN c.sent[1].status = Num(400) /\ c.sent[1].body.error = Str("Validation error")
       ELSE IF UpstreamFailed(c.reply)
       THEN c.sent[1].status = Num(500) /\ c.sent[1].body.message = FailureMessage(c.reply)
       ELSE /\ c.sent[1].status = Num(200)
            /\ SelectSeq(c.sent[1].body.p, LAMBDA m : m.k # McpMetadataKey)
                 = Parse(c.reply.text).p

\* C12: a call whose logUsage rejected is answered as the call owes: the same
\* result or error, with the same status, as when logUsage resolves.
C12_LoggerFailureHarmless ==
    \A c \in AllCalls :
      (Answered(c) /\ c.logThrew) =>
        IF c.t = "rest" THEN RestOutcomeDelivered(c) ELSE JsonRpcOutcomeDelivered(c)

C12_Witness ==
    \E c \in AllCalls :
      /\ c.t = "ws" /\ Answered(c) /\ c.logThrew
      /\ "result" \in DOMAIN Body(c) /\ Len(c.usage) = 1

\* C13 (as claimed): no two calls hand the logger usage records with the same
\* requestId.
C13_RequestIdsUnique ==
    \A i, j \in Slots :
      (i # j /\ calls[i] # NoCall /\ calls[j] # NoCall
       /\ calls[i].usage # <<>> /\ calls[j].usage # <<>>) =>
        calls[i].usage[1].requestId # calls[j].usage[1].requestId

\* C14: of the tools/call requests in flight together on one WebSocket
\* connection, each gets at most one response, and the response of an
\* answered one carries its own id and the outcome of its own upstream call,
\* in whatever order the upstream calls complete.
C14_NoCrossTalk ==
    \A c \in Live :
      /\ Len(c.sent) <= 1
      /\ Answered(c) <=> Len(c.sent) = 1
      /\ (c.t = "ws" /\ Answered(c) /\ c.reply # NoReply) => JsonRpcOutcomeDelivered(c)

C14_Witness ==
    \E i, j \in Slots :
      /\ calls[i] # NoCall /\ calls[j] # NoCall
      /\ calls[i].t = "ws" /\ calls[j].t = "ws"
      /\ Answered(calls[i]) /\ Answered(calls[j])
      /\ calls[i].message.id = Num(1) /\ calls[j].message.id = Num(2)
      /\ calls[i].reply = HttpReply(200, "OK", StringifyAt(Body1, 0, 0))
      /\ calls[j].reply = HttpReply(200, "OK", StringifyAt(Body2, 0, 0))

\* C15 (as claimed): the upstream call of a request whose credential the
\* validation service accepted goes to the production base when the
\* credential's environment is 'prod' and to the sandbox base otherwise.
UpstreamPaths == {"/process-chart", "/validate", "/calculate-raf", "/qavalidator", "/eobparser"}
BaseOfCredential(apiKeyData) ==
    IF Field(apiKeyData, "environment") = Str("prod") THEN prodApiUrl ELSE sandboxApiUrl
C15_EnvironmentSelectsBase ==
    \A c \in AllCalls :
      (c.keyCheck = "ok" /\ c.fetched # <<>>) =>
        \A k \in DOMAIN c.fetched :
          c.fetched[k].url \in {BaseOfCredential(c.apiKeyData) \o path : path \in UpstreamPaths}

\* C16 (as claimed): a call whose key the validation service rejected, or
\* could not be asked about, issues no upstream fetch and ends with a failure,
\* a 5xx one when the service could not be reached.
C16_RejectedKeyFails ==
    \A c \in AllCalls :
      c.keyCheck \in {"rejected", "unreachable"} =>
        /\ c.fetched = <<>>
        /\ Answered(c) => EndedWithError(c)

\* C17 (as claimed): a tool invocation over HTTP that carries no API key issues
\* no upstream fetch and is answered with HTTP 401, on the JSON-RPC endpoint as
\* on the REST routes.
KeylessToolInvocation(c) ==
    \/ c.t = "rest" /\ ~Truthy(c.headers.xApiKey)
    \/ /\ c.t = "http" /\ ~Truthy(extractApiKeyHTTP(c.headers))
       /\ IsToolsCall(c) /\ NameOf(c) \in RegisteredNames("http") /\ Truthy(ArgsOf(c))
C17_KeylessRejected ==
    \A c \in AllCalls :
      KeylessToolInvocation(c) =>
        /\ c.fetched = <<>>
        /\ Answered(c) => c.sent[1].status = Num(401)

\* C18 (as claimed): the tools a tools/list request is answered with are the
\* tools every transport answers with.
C18_SameToolsEverywhere ==
    \A c \in Live :
      (ValidEnvelope(c) /\ c.message.method = Str("tools/list") /\ Answered(c)) =>
        /\ Body(c).result = handleToolsList(c.message.id).result
        /\ Body(c).result = stdioHandleToolsList(c.message.id).result
        /\ Body(c).result = handleToolsListHTTP(c.message.id).result

\* C19 (as claimed): every JSON-RPC error the HTTP JSON-RPC endpoint answers
\* with is sent with HTTP status 200.
C19_JsonRpcErrorsAre200 ==
    \A c \in Live :
      (c.t = "http" /\ Answered(c) /\ "error" \in DOMAIN Body(c)) =>
        c.sent[1].status = Num(200)

\* The body lacks a field the tool requires, holds a value outside its
\* enumerated set, or holds both specialty and taxonomy_code.
RequiredFields(tool) ==
    LET required == ToolNamed("ws", tool).required
    IN {required[k] : k \in DOMAIN required}
Enumerated ==
    [specialty |-> {"Cardiology", "Physical Therapy", "Internal Medicine", "Urology",
                    "Family Medicine", "Neurology"},
     model |-> {"V28", "V24", "V22"}]
FailsSchema(tool, body) ==
    \/ RequiredFields(tool) \ DOMAIN body.f # {}
    \/ \E k \in DOMAIN Enumerated \cap DOMAIN body.f :
         body.f[k] \notin {Str(v) : v \in Enumerated[k]}
    \/ /\ tool \in {"process_chart", "validate_codes"}
       /\ {"specialty", "taxonomy_code"} \subseteq DOMAIN body.f

\* C20: a REST request that reaches its route with a body that fails the
\* schema is answered with HTTP 400 and the body {error, details, timestamp,
\* service, tool, request_id}, and no upstream fetch is issued for it.
C20_ValidationFailureIs400 ==
    \A c \in RestCalls :
      (c.keyCheck = "ok" /\ FailsSchema(c.tool, c.body)) =>
        /\ Answered(c)
        /\ c.fetched = <<>>
        /\ Len(c.sent) = 1
        /\ c.sent[1].status = Num(400)
        /\ DOMAIN c.sent[1].body
             = {"error", "details", "timestamp", "service", "tool", "request_id"}
        /\ c.sent[1].body.error = Str("Validation error")
        /\ c.sent[1].body.details.t = "string"
        /\ c.sent[1].body.tool = Str(c.tool)
        /\ c.sent[1].body.request_id = c.requestId

C20_Witness ==
    \E c \in RestCalls :
      /\ c.tool = "process_chart" /\ c.keyCheck = "ok"
      /\ {"text", "specialty", "taxonomy_code"} \subseteq DOMAIN c.body.f
      /\ Answered(c) /\ c.sent[1].status = Num(400)

\* C21: a WebSocket frame that is not valid JSON is answered on the same
\* connection with one error response of code -32600 under id null, and the
\* connection is left open, so that the frames after it are still served.
C21_MalformedFrameAnswered ==
    \A c \in AllCalls :
      c.t = "wsframe" /\ Parse(c.message.frame) = SyntaxError =>
        /\ AnsweredWithError(c, -32600)
        /\ WireId(Body(c)) = Null
        /\ wsReq.readyState = "open"

\* A frame that is not JSON has been answered, and next to it a tools/call
\* of the same connection has got its result.
C21_Witness ==
    \E i, j \in Slots :
      /\ calls[i] # NoCall /\ calls[i].t = "wsframe"
      /\ Parse(calls[i].message.frame) = SyntaxError
      /\ calls[j] # NoCall /\ calls[j].t = "ws" /\ Answered(calls[j])
      /\ "result" \in DOMAIN Body(calls[j])

\* C22: once a WebSocket connection is open, the first message the server
\* has sent on it is the notifications/initialized message, which carries
\* no id; no frame is answered before the connection handler has sent it.
C22_NotificationFirst ==
    /\ wsReq.readyState = "open" =>
         /\ wsReq.first = Serialize(InitializedNotification)
         /\ "id" \notin DOMAIN wsReq.first
         /\ wsReq.first.method = Str("notifications/initialized")
    /\ \A c \in AllCalls : c.t \in {"ws", "wsframe"} => wsReq.readyState = "open"

C22_Witness ==
    /\ wsReq.first = Serialize(InitializedNotification)
    /\ \E c \in Live : c.t = "ws" /\ Answered(c)

\* C23 (as claimed): once the whole input has been read and every handler
\* has finished, standard output holds as many response lines as the input
\* held lines with an envelope, however the input was cut into chunks.
IsResponseLine(line) == "jsonrpc" \in DOMAIN line
ResponseLines == {k \in 1..Len(proc.stdout) : IsResponseLine(proc.stdout[k])}
EnvelopeLines ==
    LET lines == Split(proc.input, <<>>)
    IN {k \in 1..Len(lines) : ParseLine(lines[k]) # SyntaxError}
C23_OneResponsePerLine ==
    (proc.stdin = <<>> /\ \A i \in Slots : calls[i] = NoCall) =>
      Cardinality(ResponseLines) = Cardinality(EnvelopeLines)

\* C24 (as claimed): for every line that JSON.parse refused, standard output
\* holds an error response of code -32600 under id null.
C24_MalformedLineReported ==
    LET caught == {k \in 1..Len(proc.stderr) : proc.stderr[k] = "Error handling message:"}
        reported == {k \in ResponseLines : /\ HasError(proc.stdout[k], -32600)
                                           /\ WireId(proc.stdout[k]) = Null}
    IN Cardinality(caught) <= Cardinality(reported)

\* C25 (as claimed): every line on standard output is a JSON-RPC response.
C25_StdoutHoldsResponsesOnly ==
    \A k \in 1..Len(proc.stdout) : IsResponseLine(proc.stdout[k])

\* C26: when standard input has reached its end, the process terminates, and
\* its exit code is 0.
C26_EndOfInputExits ==
    (proc.stdin = <<>>) ~> (proc.exited /\ proc.exitCode = Num(0))

C26_Witness ==
    /\ proc.input # <<>>
    /\ proc.stdin = <<>>
    /\ proc.exited
    /\ proc.exitCode = Num(0)

\* C27: on every transport a request with a valid envelope whose method is
\* initialize, tools/list or ping is answered at once with a result and no
\* error, without a key validation, an upstream fetch or a usage record; the
\* result of ping is the empty object.
C27_QueriesSucceed ==
    \A c \in Live :
      (ValidEnvelope(c)
       /\ c.message.method \in {Str("initialize"), Str("tools/list"), Str("ping")}) =>
        /\ Answered(c) /\ Len(c.sent) = 1
        /\ "result" \in DOMAIN Body(c) /\ "error" \notin DOMAIN Body(c)
        /\ c.fetched = <<>> /\ c.usage = <<>> /\ c.keyCheck = "none"
        /\ c.message.method = Str("ping") => Body(c).result = EmptyObject

C27_Witness ==
    \E c \in Live :
      /\ ValidEnvelope(c) /\ c.message.method = Str("ping") /\ c.t = "http"
      /\ Answered(c) /\ Body(c).result = EmptyObject

\* C28: a GET of the capabilities document or of the OpenAI tool list is
\* answered 200 without any key validation, with or without an x-api-key,
\* while the routes of the /mcp router (its GET routes and the tool routes)
\* run only for a request whose key the validation service has accepted.
DiscoveryPaths == {"/capabilities", "/capabilities/openai-tools"}
C28_DiscoveryOpen ==
    /\ \A c \in AllCalls :
         c.t = "get" /\ c.path \in DiscoveryPaths =>
           /\ Answered(c) /\ c.sent[1].status = Num(200)
           /\ c.route = "capabilitiesRoutes" /\ c.keyCheck = "none"
    /\ \A c \in AllCalls : c.t = "get" /\ c.route = "mcpRoutes" => c.keyCheck = "ok"
    /\ \A c \in RestCalls : c.requestId # Undefined => c.keyCheck = "ok"

C28_Witness ==
    \E c \in AllCalls :
      /\ c.t = "get" /\ c.path = "/capabilities/openai-tools"
      /\ ~Truthy(c.headers.xApiKey)
      /\ Answered(c) /\ c.sent[1].status = Num(200)

\* C29 (as claimed): a tools/call on a connection whose handshake carried an
\* x-api-key header is forwarded under that header's key.
C29_HeaderPreferred ==
    \A c \in Live :
      (c.t = "ws" /\ c.fetched # <<>> /\ Truthy(wsReq.header)) =>
        LastFetch(c).apiKey = wsReq.header

\* C30 (as claimed): a calculate_raf invocation whose arguments hold no model
\* is not forwarded upstream.
OmitsModel(c) ==
    IF c.t = "rest"
    THEN c.tool = "calculate_raf" /\ Field(c.body, "model") = Undefined
    ELSE /\ c.t \in {"ws", "stdio"}
         /\ IsToolsCall(c)
         /\ NameOf(c) = Str("calculate_raf")
         /\ Truthy(ArgsOf(c))
         /\ Field(ArgsOf(c), "model") = Undefined
C30_ModelRequired ==
    \A c \in AllCalls : c.t \in {"rest", "ws", "stdio"} /\ OmitsModel(c) => c.fetched = <<>>

\* C31 (as claimed): the upstream call of a tool invocation goes to the
\* tool's documented endpoint: process_chart to /assistant, validate_codes to
\* /validator, calculate_raf to /rafscore, qa_validate_codes to /qavalidator
\* and parse_eob to /eobparser, on the production or the sandbox base.
DocumentedEndpoint ==
    [process_chart |-> "/assistant", validate_codes |-> "/validator",
     calculate_raf |-> "/rafscore", qa_validate_codes |-> "/qavalidator",
     parse_eob |-> "/eobparser"]
InvokedTool(c) == IF c.t = "rest" THEN c.tool ELSE NameOf(c).s
C31_DocumentedEndpointCalled ==
    \A c \in AllCalls :
      (c.t \in {"ws", "stdio", "rest"} /\ c.fetched # <<>>) =>
        \A k \in DOMAIN c.fetched :
          c.fetched[k].url \in {base \o DocumentedEndpoint[InvokedTool(c)] :
                                  base \in {prodApiUrl, sandboxApiUrl}}

\* C32: a tool invocation issues at most one upstream fetch; while it waits
\* for the upstream exactly one fetch is outstanding, and once the upstream
\* has replied, with a success or a failure, the call is answered with that
\* single fetch behind it.
ToolTransports == {"ws", "stdio", "http", "rest"}
NamesUnknownTool(c) ==
    /\ IsToolsCall(c) /\ Truthy(NameOf(c)) /\ Truthy(ArgsOf(c))
    /\ NameOf(c) \notin RegisteredNames(c.t)
C33_ToolResolvedFirst ==
    \A c \in Live :
      NamesUnknownTool(c) =>
        /\ c.pc # "validateKey" /\ c.keyCheck = "none"
        /\ c.fetched = <<>>
        /\ Answered(c) => AnsweredWithError(c, -32601)

\* C34 (as claimed): the usage record of a tools/call on a WebSocket
\* connection carries the principal id of the credential context resolved for
\* that call, whatever other calls are in flight on the connection.
C34_OwnCredentialContext ==
    \A c \in Live :
      (c.t = "ws" /\ c.usage # <<>>) =>
        c.usage[1].apiKeyId = Field(c.apiKeyData, "id")

\* C35: the keep-alive terminates an open connection at a tick exactly when
\* a ping was sent to it at the previous tick and no pong has arrived from
\* it since; nothing but such a tick terminates a connection, so one that
\* answers every ping before the next tick stays open, whatever JSON-RPC
\* requests it sends or leaves out in between.
TickOnOpen == wsReq.readyState = "open" /\ wsReq'.ticks # wsReq.ticks
TerminatedNow == wsReq.readyState # "terminated" /\ wsReq'.readyState = "terminated"
C35_KeepAliveTerminatesSilent ==
    [][/\ TickOnOpen => (TerminatedNow <=> (wsReq.pinged /\ ~wsReq.pong))
       /\ TerminatedNow => TickOnOpen]_vars

C35_Witness ==
    /\ wsReq.readyState = "terminated"
    /\ wsReq.ticks = MaxTicks
    /\ wsReq.isAlive = Bool(FALSE)

\* C36 (as claimed): the statusCode of the usage record a REST tool route
\* writes is the HTTP status of the response it returns, for every tool.
C36_LoggedStatusIsReturned ==
    \A c \in RestCalls :
      (Answered(c) /\ c.usage # <<>>) =>
        Num(c.usage[Len(c.usage)].statusCode) = c.sent[1].status

\* C37 (as claimed): every upstream fetch of a WebSocket or stdio tools/call
\* carries a key in its x-api-key header.
C37_UpstreamKeyDefined ==
    \A c \in Live :
      (c.t \in {"ws", "stdio"} /\ c.fetched # <<>>) =>
        \A k \in DOMAIN c.fetched : Truthy(c.fetched[k].apiKey)

\* C38 (as claimed): when the stdio process has exited, no tools/call read
\* from standard input is still waiting for its upstream call: each has had
\* its response line written.
C38_NoCallAbandonedAtExit ==
    proc.exited => \A i \in Slots : calls[i] = NoCall \/ calls[i].pc # "upstream"

\* C39: on each JSON-RPC transport a tools/call that passes the params check
\* is answered with -32601 "Unknown tool" exactly when its name is not among
\* the names the transport's tools/list returns: every listed name is
\* accepted and every accepted name is listed.
C39_ListedIffAccepted ==
    \A c \in Live :
      (IsToolsCall(c) /\ Truthy(NameOf(c)) /\ Truthy(ArgsOf(c))) =>
        /\ Answered(c) =>
             (NameOf(c) \in RegisteredNames(c.t) <=> ~AnsweredWithError(c, -32601))
        /\ c.fetched # <<>> => NameOf(c) \in RegisteredNames(c.t)

C39_Witness ==
    \E c \in Live :
      /\ c.t = "ws" /\ IsToolsCall(c) /\ NameOf(c) = Str("parse_eob")
      /\ NameOf(c) \in RegisteredNames(c.t)
      /\ Answered(c) /\ "result" \in DOMAIN Body(c)

\* C40: a connection or a request is served only by a process that has
\* initialised the usage logger and is listening; a failed initialisation
\* ends the process with exit code 1 before it has listened or served
\* anything; and the process exits in no other way than that failure or a
\* termination signal, whatever errors its handlers meet while serving.
NothingServed == wsReq = NoConnection /\ \A i \in Slots : calls[i] = NoCall
C40_ListensAfterInitialisation ==
    /\ ~NothingServed => proc.db = "ready"
    /\ proc.phase = "listening" => proc.db = "ready" /\ ~proc.exited
    /\ proc.db = "failed" => proc.exited /\ proc.exitCode = Num(1) /\ NothingServed
    /\ proc.exited => (proc.signalled /\ proc.exitCode = Num(0)) \/ proc.db = "failed"

C40_Witness ==
    /\ proc.db = "failed" /\ proc.exited /\ proc.exitCode = Num(1)
    /\ NothingServed

====
